---- MODULE Spec2Model ----
(***************************************************************************)
(* Model of the hexagonal-grid multi-agent simulation of                   *)
(* src/unnamed/part_000 (the CircuitBoard / Car pair that starts at line   *)
(* 892, the version with car ids, dead-car records and trace fading).      *)
(*                                                                         *)
(* Units.  Pixel coordinates are held in tenths of a pixel, so that        *)
(* rowHeight = hexSize * 0.866 and every lattice point are integers.       *)
(* Times are in milliseconds (Date.now()).  totalLifetime is held in       *)
(* milliseconds (the code divides by 1000), distances are the integer      *)
(* part of Math.sqrt in tenths of a pixel.  Within one frame every read    *)
(* of Date.now() returns the frame's currentTime.                          *)
(***************************************************************************)
EXTENDS Integers, Sequences, FiniteSets, TLC

\* ------------------------------------------------------------------ options
hexSize == 100
maxCars == 2
CleanupPeriod == 10
RecentLines == 100
ResizeThreshold == 150

\* ------------------------------------------------------------------- bounds
CanvasWidth == 240
CanvasHeight == 100
StartTime == 5000
FrameMs == 1000
MaxFrames == 12
MaxCarIds == 16
traceLifetime == 1
fadeDuration == 1
stepDelay == 2000
spawnDelay == 3000

\* ----------------------------------------------------------------- geometry
Strategies == <<"wall-follower", "wanderer", "explorer", "spiral">>

Abs(n) == IF n < 0 THEN -n ELSE n

\* Math.round(n / d) for d > 0: the nearest integer, halves towards +infinity.
Round(n, d) == (2 * n + d) \div (2 * d)

RECURSIVE SqrtBetween(_, _, _)
SqrtBetween(n, lo, hi) ==
    IF lo >= hi THEN lo
    ELSE LET mid == (lo + hi + 1) \div 2
         IN  IF mid * mid <= n THEN SqrtBetween(n, mid, hi)
             ELSE SqrtBetween(n, lo, mid - 1)

\* Integer part of Math.sqrt(n).
Sqrt(n) == SqrtBetween(n, 0, 40000)

hexSize10 == hexSize * 10
rowHeight == (hexSize * 866) \div 100

hexDirections ==
    << [dx |-> hexSize10,            dy |-> 0],
       [dx |-> hexSize10 \div 2,     dy |-> rowHeight],
       [dx |-> -(hexSize10 \div 2),  dy |-> rowHeight],
       [dx |-> -hexSize10,           dy |-> 0],
       [dx |-> -(hexSize10 \div 2),  dy |-> -rowHeight],
       [dx |-> hexSize10 \div 2,     dy |-> -rowHeight] >>

\* Math.round(x) + ',' + Math.round(y), as the pair of rounded pixels.
getHexKey(x, y) == <<Round(x, 10), Round(y, 10)>>

\* The lattice point nearest to (x, y): row from y, column from the row's offset.
SnapToGrid(x, y) ==
    LET row == Round(y, rowHeight)
        xOffset == IF row % 2 = 0 THEN 0 ELSE hexSize10 \div 2
        col == Round(x - xOffset, hexSize10)
    IN  [x |-> col * hexSize10 + xOffset, y |-> row * rowHeight]

\* occupiedCells[key] read as a JavaScript truth value.
IsOccupied(occ, key) == key \in DOMAIN occ /\ occ[key] # 0

linesIntersect(x1, y1, x2, y2, x3, y3, x4, y4) ==
    LET threshold == (hexSize10 * 15) \div 100
        near(ax, ay, bx, by) == Abs(ax - bx) < threshold /\ Abs(ay - by) < threshold
        denom == ((y4 - y3) * (x2 - x1)) - ((x4 - x3) * (y2 - y1))
        na == ((x4 - x3) * (y1 - y3)) - ((y4 - y3) * (x1 - x3))
        nb == ((x2 - x1) * (y1 - y3)) - ((y2 - y1) * (x1 - x3))
        \* 0.05 < n / denom < 0.95
        inside(n) == IF denom > 0
                     THEN 20 * n > denom /\ 20 * n < 19 * denom
                     ELSE 20 * n < denom /\ 20 * n > 19 * denom
    IN  IF near(x1, y1, x3, y3) \/ near(x1, y1, x4, y4)
           \/ near(x2, y2, x3, y3) \/ near(x2, y2, x4, y4)
        THEN FALSE
        ELSE IF denom = 0 THEN FALSE
        ELSE inside(na) /\ inside(nb)

Null == <<>>

\* One interior sample point of the path (step/3 of the way) lies within 60% of
\* a hex edge of an occupied lattice point other than the car's own cell.
PathPointBlocked(car, dir, step, occ) ==
    LET cx3 == 3 * car.x + dir.dx * step
        cy3 == 3 * car.y + dir.dy * step
        approxRow == Round(cy3, 3 * rowHeight)
        xOffset == IF approxRow % 2 = 0 THEN 0 ELSE hexSize10 \div 2
        approxCol == Round(cx3 - 3 * xOffset, 3 * hexSize10)
        gridX == approxCol * hexSize10 + xOffset
        gridY == approxRow * rowHeight
        ddx == cx3 - 3 * gridX
        ddy == cy3 - 3 * gridY
        checkKey == getHexKey(gridX, gridY)
    IN  /\ ddx * ddx + ddy * ddy < (18 * hexSize) * (18 * hexSize)
        /\ IsOccupied(occ, checkKey)
        /\ checkKey # getHexKey(car.x, car.y)

\* Car.prototype.tryDirection: <<move>> when the direction is legal, Null otherwise.
tryDirection(car, dirIndex, occ, canvasWidth, canvasHeight, lines) ==
    LET dir == hexDirections[dirIndex + 1]
        nextX == car.x + dir.dx
        nextY == car.y + dir.dy
        checkStart == IF Len(lines) > RecentLines THEN Len(lines) - RecentLines ELSE 0
    IN  IF nextX < 0 \/ nextX >= canvasWidth * 10 \/ nextY < 0 \/ nextY >= canvasHeight * 10
        THEN Null
        ELSE IF IsOccupied(occ, getHexKey(nextX, nextY)) THEN Null
        ELSE IF \E step \in 1..2 : PathPointBlocked(car, dir, step, occ) THEN Null
        ELSE IF \E i \in (checkStart + 1)..Len(lines) :
                    linesIntersect(car.x, car.y, nextX, nextY,
                                   lines[i].x1, lines[i].y1, lines[i].x2, lines[i].y2)
        THEN Null
        ELSE << [x |-> nextX, y |-> nextY, direction |-> dirIndex] >>

\* ------------------------------------------------------ movement strategies
Directions == 0..5

WandererPriorities(straightAhead, turn60, turn120) ==
    << straightAhead,
       (straightAhead + turn60) % 6,
       (straightAhead + turn120) % 6,
       (straightAhead + 3) % 6,
       (straightAhead + 1) % 6,
       (straightAhead + 5) % 6 >>

\* Variant of the spiral's list that tries straight ahead before the larger
\* turn.
SpiralPriorities_StraightSecond(straightAhead, preferredTurnDirection) ==
    LET turnDir == IF preferredTurnDirection = "right" THEN 1 ELSE 5
    IN  << (straightAhead + turnDir) % 6,
           straightAhead,
           (straightAhead + turnDir * 2) % 6,
           (straightAhead + 3) % 6,
           (straightAhead + (IF turnDir = 1 THEN 5 ELSE 1)) % 6,
           (straightAhead + (IF turnDir = 1 THEN 4 ELSE 2)) % 6 >>

\* The spiral list of calculateMove.
SpiralPriorities(straightAhead, preferredTurnDirection) ==
    LET turnDir == IF preferredTurnDirection = "right" THEN 1 ELSE 5
    IN  << (straightAhead + turnDir) % 6,
           (straightAhead + turnDir * 2) % 6,
           straightAhead,
           (straightAhead + 3) % 6,
           (straightAhead + (IF turnDir = 1 THEN 5 ELSE 1)) % 6,
           (straightAhead + (IF turnDir = 1 THEN 4 ELSE 2)) % 6 >>

\* Variant of the wall-follower's list that takes the preference the other
\* way round.
WallFollowerPriorities_Mirrored(straightAhead, preferredTurnDirection) ==
    IF preferredTurnDirection = "left"
    THEN << (straightAhead + 1) % 6, straightAhead, (straightAhead + 2) % 6,
            (straightAhead + 3) % 6, (straightAhead + 4) % 6, (straightAhead + 5) % 6 >>
    ELSE << (straightAhead + 5) % 6, straightAhead, (straightAhead + 4) % 6,
            (straightAhead + 3) % 6, (straightAhead + 2) % 6, (straightAhead + 1) % 6 >>

\* Variant of the wall-follower's list that tries straight ahead first.
WallFollowerPriorities_StraightFirst(straightAhead, preferredTurnDirection) ==
    IF preferredTurnDirection = "right"
    THEN << straightAhead, (straightAhead + 1) % 6, (straightAhead + 2) % 6,
            (straightAhead + 3) % 6, (straightAhead + 4) % 6, (straightAhead + 5) % 6 >>
    ELSE << straightAhead, (straightAhead + 5) % 6, (straightAhead + 4) % 6,
            (straightAhead + 3) % 6, (straightAhead + 2) % 6, (straightAhead + 1) % 6 >>

\* The default (wall-follower) list of calculateMove.
WallFollowerPriorities(straightAhead, preferredTurnDirection) ==
    IF preferredTurnDirection = "right"
    THEN << (straightAhead + 1) % 6, straightAhead, (straightAhead + 2) % 6,
            (straightAhead + 3) % 6, (straightAhead + 4) % 6, (straightAhead + 5) % 6 >>
    ELSE << (straightAhead + 5) % 6, straightAhead, (straightAhead + 4) % 6,
            (straightAhead + 3) % 6, (straightAhead + 2) % 6, (straightAhead + 1) % 6 >>

\* The Fisher-Yates loop: for i = 5 down to 1, swap entry i with entry js[i],
\* js[i] = Math.floor(Math.random() * (i + 1)); entries are indexed from 0.
RECURSIVE Shuffle(_, _, _)
Shuffle(p, js, i) ==
    IF i < 1 THEN p
    ELSE LET j == js[i]
             swapped == [k \in 1..6 |-> IF k = i + 1 THEN p[j + 1]
                                        ELSE IF k = j + 1 THEN p[i + 1]
                                        ELSE p[k]]
         IN  Shuffle(swapped, js, i - 1)

ShuffleDraws == { js \in [1..5 -> 0..5] : \A i \in 1..5 : js[i] <= i }

ExplorerPriorities(straightAhead, js) ==
    Shuffle([i \in 1..6 |-> (straightAhead + (i - 1)) % 6], js, 5)

\* The candidate lists calculateMove can build for a strategy, heading and turn
\* preference: one per outcome of Math.random(), the explorer's shuffle taking
\* its draws from shuffles.
PrioritySet(strategy, straightAhead, preferredTurnDirection, shuffles) ==
    CASE strategy = "wanderer" ->
            { WandererPriorities(straightAhead, a, b) : a \in {1, 5}, b \in {2, 4} }
      [] strategy = "spiral" ->
            { SpiralPriorities(straightAhead, preferredTurnDirection) }
      [] strategy = "explorer" ->
            { ExplorerPriorities(straightAhead, js) : js \in shuffles }
      [] OTHER ->
            { WallFollowerPriorities(straightAhead, preferredTurnDirection) }

scoreMove(move, car) == 100

\* The loop of calculateMove over a candidate list, from entry i on; tried[d + 1]
\* is the result of car.tryDirection(d, ...).
RECURSIVE TryInOrder(_, _, _, _)
TryInOrder(car, priorities, tried, i) ==
    IF i > Len(priorities) THEN Null
    ELSE LET dirIndex == priorities[i]
             move == tried[dirIndex + 1]
         IN  IF move # Null /\ scoreMove(move[1], car) >= 0
             THEN << [x |-> move[1].x, y |-> move[1].y,
                      direction |-> move[1].direction,
                      oldDirection |-> car.currentDirection,
                      is180 |-> ((dirIndex - car.currentDirection + 6) % 6 = 3)] >>
             ELSE TryInOrder(car, priorities, tried, i + 1)

\* Variant that starts the loop at the second entry.
ReturnedMove_FromSecond(car, priorities, tried) == TryInOrder(car, priorities, tried, 2)

\* The loop started at its first entry: what calculateMove returns.
ReturnedMove(car, priorities, tried) == TryInOrder(car, priorities, tried, 1)

TryAll(car, occ, canvasWidth, canvasHeight, lines) ==
    << tryDirection(car, 0, occ, canvasWidth, canvasHeight, lines),
       tryDirection(car, 1, occ, canvasWidth, canvasHeight, lines),
       tryDirection(car, 2, occ, canvasWidth, canvasHeight, lines),
       tryDirection(car, 3, occ, canvasWidth, canvasHeight, lines),
       tryDirection(car, 4, occ, canvasWidth, canvasHeight, lines),
       tryDirection(car, 5, occ, canvasWidth, canvasHeight, lines) >>

\* CircuitBoard.prototype.calculateMove for one candidate list.
calculateMove(car, priorities, occ, canvasWidth, canvasHeight, lines) ==
    ReturnedMove(car, priorities, TryAll(car, occ, canvasWidth, canvasHeight, lines))

\* What calculateMove can do for a car, over the outcomes of Math.random():
\* the candidate list built and the move returned for it.
MoveSet(car, occ, canvasWidth, canvasHeight, lines, shuffles) ==
    LET tried == TryAll(car, occ, canvasWidth, canvasHeight, lines)
    IN  { [ priorities |-> p, move |-> ReturnedMove(car, p, tried),
            legalDirs |-> { d \in Directions : tried[d + 1] # Null } ] :
            p \in PrioritySet(car.strategy, car.currentDirection,
                              car.preferredTurnDirection, shuffles) }

\* -------------------------------------------------------------- board state
VARIABLES
    now,                 \* Date.now()
    canvas,              \* [width, height] of the canvas, in pixels
    infiniteLifetime,    \* option: TRUE = eviction mode, FALSE = fading mode
    options,             \* the other options of the constructor: [maxCars, spawnDelay]
    cars,                \* active cars, in array order
    occupiedCells,       \* key -> count
    cellTimestamps,      \* key -> time the cell was taken
    cellOwners,          \* key -> car id
    allLines,            \* trace segments, in array order
    nextCarId,
    deadCarIds,          \* car id -> death time
    strategyFitness,     \* strategy -> totals
    lastStepTime,
    lastSpawnTime,
    cleanupFrameCounter, \* held modulo CleanupPeriod (the code only tests % 10)
    frame,               \* what the last handler did: locals of draw()
    rng,                 \* the outcomes of Math.random() that the run follows
    calc                 \* a call of calculateMove's list construction on its own

vars == << now, canvas, infiniteLifetime, options, cars, occupiedCells, cellTimestamps,
           cellOwners, allLines, nextCarId, deadCarIds, strategyFitness,
           lastStepTime, lastSpawnTime, cleanupFrameCounter, frame, rng, calc >>

\* obj[key] = value on a JavaScript object.
Put(obj, key, value) == (key :> value) @@ obj

\* delete obj[key] for every key of keys.
Delete(obj, keys) == [k \in DOMAIN obj \ keys |-> obj[k]]

\* array.filter(keep), for a set of kept indices.
RECURSIVE FilterSeq(_, _, _)
FilterSeq(seq, keep, i) ==
    IF i > Len(seq) THEN <<>>
    ELSE IF i \in keep THEN <<seq[i]>> \o FilterSeq(seq, keep, i + 1)
    ELSE FilterSeq(seq, keep, i + 1)

\* this.allLines.filter(l => l.carId === id).length
SegmentCount(lines, id) == Cardinality({ i \in 1..Len(lines) : lines[i].carId = id })

\* Variant of the new car that counts its spawn cell as visited.
NewCar_SpawnCounted(x, y, strategy, carId, turn, dir, t) ==
    [ id |-> carId, x |-> x, y |-> y, stuck |-> FALSE, birthTime |-> t,
      distanceTraveled |-> 0, cellsVisited |-> 1, strategy |-> strategy,
      preferredTurnDirection |-> turn, currentDirection |-> dir ]

\* A car as the Car constructor and spawnCar leave it.
NewCar(x, y, strategy, carId, turn, dir, t) ==
    [ id |-> carId, x |-> x, y |-> y, stuck |-> FALSE, birthTime |-> t,
      distanceTraveled |-> 0, cellsVisited |-> 0, strategy |-> strategy,
      preferredTurnDirection |-> turn, currentDirection |-> dir ]

\* Variant in which a committed move never changes the preference.
FlipPreference_Never(pref, turnAngle) == pref

\* The preference after a committed move that turned by turnAngle sixths.
FlipPreference(pref, turnAngle) ==
    IF pref = "right"
    THEN IF turnAngle = 4 \/ turnAngle = 5 THEN "left" ELSE pref
    ELSE IF turnAngle = 1 \/ turnAngle = 2 THEN "right" ELSE pref

\* Variant without the commit-time check.
CommitBlocked_Never(occ, key) == FALSE

\* The commit-time check of executeMove: the destination is already occupied.
CommitBlocked(occ, key) == IsOccupied(occ, key)

\* Variant of the blocked commit that counts the car on the destination cell
\* before it gives up.
BlockedCommit_Counted(b, ci, key, t) ==
    [b EXCEPT !.cars[ci].stuck = TRUE, !.occupiedCells = Put(@, key, @[key] + 1)]

\* What executeMove does when its check finds the destination occupied:
\* car.stuck = true; return.
BlockedCommit(b, ci, key, t) == [b EXCEPT !.cars[ci].stuck = TRUE]

\* Variant that numbers the segment by the length of the whole trace list.
newSegment_IndexAll(car, snapped, lines, t) ==
    [ x1 |-> car.x, y1 |-> car.y, x2 |-> snapped.x, y2 |-> snapped.y,
      carId |-> car.id, birthTime |-> car.birthTime, timestamp |-> t,
      segmentIndex |-> Len(lines) ]

\* newSegment of executeMove, for the car as it was before the move.
newSegment(car, snapped, lines, t) ==
    [ x1 |-> car.x, y1 |-> car.y, x2 |-> snapped.x, y2 |-> snapped.y,
      carId |-> car.id, birthTime |-> car.birthTime, timestamp |-> t,
      segmentIndex |-> SegmentCount(lines, car.id) ]

\* CircuitBoard.prototype.executeMove on board b for the car at index ci.
executeMove(b, ci, move, t) ==
    LET car == b.cars[ci]
        snapped == SnapToGrid(move.x, move.y)
        key == getHexKey(snapped.x, snapped.y)
        ddx == snapped.x - car.x
        ddy == snapped.y - car.y
        turnAngle == (move.direction - car.currentDirection + 6) % 6
        moved == [car EXCEPT
                    !.x = snapped.x,
                    !.y = snapped.y,
                    !.distanceTraveled = @ + Sqrt(ddx * ddx + ddy * ddy),
                    !.cellsVisited = @ + 1,
                    !.preferredTurnDirection = FlipPreference(@, turnAngle),
                    !.currentDirection = move.direction]
    IN  IF CommitBlocked(b.occupiedCells, key)
        THEN BlockedCommit(b, ci, key, t)
        ELSE [b EXCEPT
                !.occupiedCells = Put(@, key, (IF key \in DOMAIN @ THEN @[key] ELSE 0) + 1),
                !.cellTimestamps = Put(@, key, t),
                !.cellOwners = Put(@, key, car.id),
                !.cars[ci] = moved,
                !.allLines = Append(@, newSegment(car, snapped, @, t))]

\* What a call of executeMove for the car at index ci can read and write.
CommitView(b, ci) ==
    [ occupiedCells |-> b.occupiedCells, cellTimestamps |-> b.cellTimestamps,
      cellOwners |-> b.cellOwners, allLines |-> b.allLines, car |-> b.cars[ci] ]

\* A call of executeMove made by PHASE 3; a call that its check stops is
\* recorded with the board before and after it.
Commit(b, ci, move, t) ==
    LET snapped == SnapToGrid(move.x, move.y)
        key == getHexKey(snapped.x, snapped.y)
        after == executeMove(b, ci, move, t)
    IN  IF IsOccupied(b.occupiedCells, key)
        THEN [after EXCEPT !.blockedCommits =
                 Append(@, [ key |-> key, before |-> CommitView(b, ci),
                             after |-> CommitView(after, ci) ])]
        ELSE after

\* PHASE 1 and 2 of draw(): one entry per car that is not stuck, with the move
\* chosen for it and the key of its snapped destination.  car is the car as
\* it was when the move was calculated and priorities the list it was
\* calculated from (a local of calculateMove); legalDirs are the directions
\* for which tryDirection returned a move at that moment.
Entry(car, ci, move, priorities, legalDirs) ==
    [ car |-> car, carIndex |-> ci, move |-> move, priorities |-> priorities,
      legalDirs |-> legalDirs,
      snappedDestKey |-> IF move = Null THEN Null
                         ELSE LET s == SnapToGrid(move[1].x, move[1].y)
                              IN  <<getHexKey(s.x, s.y)>> ]

\* Variant in which a car's move is calculated after the destinations of the
\* cars before it have been marked occupied.
RECURSIVE IntendedMoveLists_Interleaved(_, _)
IntendedMoveLists_Interleaved(b, ci) ==
    IF ci > Len(b.cars) THEN { <<>> }
    ELSE LET car == b.cars[ci]
         IN  IF car.stuck THEN IntendedMoveLists_Interleaved(b, ci + 1)
             ELSE UNION {
                    LET e == Entry(car, ci, m.move, m.priorities, m.legalDirs)
                        seen == IF e.move = Null THEN b
                                ELSE [b EXCEPT !.occupiedCells =
                                                  Put(@, e.snappedDestKey[1], 1)]
                    IN  { <<e>> \o r : r \in IntendedMoveLists_Interleaved(seen, ci + 1) }
                    : m \in MoveSet(car, b.occupiedCells, b.canvas.width,
                                    b.canvas.height, b.allLines, b.rng.shuffles) }

\* The lists of entries phase 1 can build: each car's move ranges over MoveSet.
RECURSIVE IntendedMoveLists(_, _)
IntendedMoveLists(b, ci) ==
    IF ci > Len(b.cars) THEN { <<>> }
    ELSE LET rest == IntendedMoveLists(b, ci + 1)
             car == b.cars[ci]
         IN  IF car.stuck THEN rest
             ELSE { <<Entry(car, ci, m.move, m.priorities, m.legalDirs)>> \o r :
                      m \in MoveSet(car, b.occupiedCells, b.canvas.width,
                                    b.canvas.height, b.allLines, b.rng.shuffles),
                      r \in rest }

destinationCount(entries, destKey) ==
    Cardinality({ j \in 1..Len(entries) :
                    entries[j].move # Null /\ entries[j].snappedDestKey = destKey })

\* Variant in which the last entry holding a move to the destination wins.
FirstInConflict_Last(live, destKey) ==
    CHOOSE j \in 1..Len(live) :
        /\ live[j].move # Null /\ live[j].snappedDestKey = destKey
        /\ \A k \in (j + 1)..Len(live) :
              ~(live[k].move # Null /\ live[k].snappedDestKey = destKey)

\* carsInConflict[0]: the first entry, in list order, that still holds a move
\* to the contested destination.
FirstInConflict(live, destKey) ==
    CHOOSE j \in 1..Len(live) :
        /\ live[j].move # Null /\ live[j].snappedDestKey = destKey
        /\ \A k \in 1..(j - 1) : ~(live[k].move # Null /\ live[k].snappedDestKey = destKey)

\* carsInConflict: the entries, in list order, that still hold a move to the
\* contested destination.
carsInConflict(live, destKey) ==
    { j \in 1..Len(live) : live[j].move # Null /\ live[j].snappedDestKey = destKey }

\* isHeadOn of PHASE 3: exactly two cars in conflict, both going straight,
\* with headings three sixths apart.
isHeadOn(b, live, destKey) ==
    /\ Cardinality(carsInConflict(live, destKey)) = 2
    /\ LET first == live[FirstInConflict(live, destKey)]
           second == live[FirstInConflict_Last(live, destKey)]
           car1 == b.cars[first.carIndex]
           car2 == b.cars[second.carIndex]
       IN  /\ first.move[1].direction = car1.currentDirection
           /\ second.move[1].direction = car2.currentDirection
           /\ Abs(car1.currentDirection - car2.currentDirection) = 3

\* Variant in which a head-on conflict goes to the second car.
ConflictCommit_HeadOnSecond(b, live, destKey) ==
    IF isHeadOn(b, live, destKey) THEN FirstInConflict_Last(live, destKey)
    ELSE FirstInConflict(live, destKey)

\* The entry whose move the conflict branch of PHASE 3 executes: with two
\* cars in conflict, head-on or not, and with any other number, it is
\* carsInConflict[0].
ConflictCommit(b, live, destKey) ==
    IF Cardinality(carsInConflict(live, destKey)) = 2
    THEN IF isHeadOn(b, live, destKey) THEN FirstInConflict(live, destKey)
         ELSE FirstInConflict(live, destKey)
    ELSE FirstInConflict(live, destKey)

\* Variant whose segment ends one cell to the east.
deathDot_Stretched(car, lines, t) ==
    [ x1 |-> car.x, y1 |-> car.y, x2 |-> car.x + hexSize10, y2 |-> car.y,
      carId |-> car.id, birthTime |-> car.birthTime, timestamp |-> t,
      segmentIndex |-> SegmentCount(lines, car.id) ]

\* The death dot of PHASE 3's no-move branch.
deathDot(car, lines, t) ==
    [ x1 |-> car.x, y1 |-> car.y, x2 |-> car.x, y2 |-> car.y, carId |-> car.id,
      birthTime |-> car.birthTime, timestamp |-> t,
      segmentIndex |-> SegmentCount(lines, car.id) ]

\* PHASE 3 of draw(), from entry i on.  entries is the list as phase 2 left it
\* (it decides the destination counts); live is the same list with the moves
\* that the loop has set to null.
RECURSIVE Phase3(_, _, _, _, _)
Phase3(b, entries, live, i, t) ==
    IF i > Len(live) THEN b
    ELSE LET entry == live[i]
         IN  IF entry.move # Null /\ entry.snappedDestKey # Null
             THEN IF destinationCount(entries, entry.snappedDestKey) = 1
                  THEN Phase3(Commit(b, entry.carIndex, entry.move[1], t),
                              entries, live, i + 1, t)
                  ELSE LET first == live[ConflictCommit(b, live, entry.snappedDestKey)]
                       IN  Phase3(Commit(b, first.carIndex, first.move[1], t),
                                  entries, [live EXCEPT ![i].move = Null], i + 1, t)
             ELSE LET car == b.cars[entry.carIndex]
                  IN  Phase3([b EXCEPT !.cars[entry.carIndex].stuck = TRUE,
                                       !.allLines = Append(@, deathDot(car, @, t))],
                             entries, live, i + 1, t)

\* The fitness record of one strategy after a car of it has retired.
\* Variant that adds the totals but leaves count as it is.
RecordFitness_NoCount(fit, car, t) ==
    [ totalLifetime |-> fit.totalLifetime + (t - car.birthTime),
      totalDistance |-> fit.totalDistance + car.distanceTraveled,
      totalCells |-> fit.totalCells + car.cellsVisited,
      count |-> fit.count ]

\* The fitness record of PHASE 4 for one stuck car.
RecordFitness(fit, car, t) ==
    [ totalLifetime |-> fit.totalLifetime + (t - car.birthTime),
      totalDistance |-> fit.totalDistance + car.distanceTraveled,
      totalCells |-> fit.totalCells + car.cellsVisited,
      count |-> fit.count + 1 ]

\* PHASE 4 of draw(): the loop runs from the last car down to index i = 1.
RECURSIVE Phase4(_, _, _)
Phase4(b, i, t) ==
    IF i < 1 THEN b
    ELSE LET car == b.cars[i]
         IN  IF car.stuck
             THEN Phase4([b EXCEPT
                            !.strategyFitness[car.strategy] = RecordFitness(@, car, t),
                            !.deadCarIds = Put(@, car.id, t),
                            !.stuckCars = Append(@, car),
                            !.cars = SubSeq(@, 1, i - 1) \o SubSeq(@, i + 1, Len(@))],
                         i - 1, t)
             ELSE Phase4(b, i - 1, t)

\* ----------------------------------------------------------------- spawning
\* The draws of the Car constructor (strategy chosen, turn preference, heading)
\* that a run follows: each run takes its cars from one of these sets.
CarDraw(strategy, turn, dir) == [ strategy |-> strategy, turn |-> turn, dir |-> dir ]

CarDrawSets ==
    { { CarDraw("explorer", "right", 0), CarDraw("wall-follower", "left", 3) },
      { CarDraw("wanderer", "left", 0), CarDraw("spiral", "right", 3) } }

\* The draws of the explorer's shuffle that a run follows: over them each of
\* the six directions comes first in one list.
ShuffleSubset ==
    { <<1, 2, 3, 4, 5>>, <<0, 0, 0, 0, 0>>, <<1, 2, 2, 1, 0>>,
      <<1, 2, 0, 1, 2>>, <<0, 1, 0, 0, 0>>, <<0, 0, 0, 1, 0>> }

mutationRatePct == 10

\* weight > 0 for a strategy: 1.0 without data, combinedFitness squared with
\* data; combinedFitness * 1000 * count = 2000 * cells + lifetime(ms) + distance(0.1px).
WeightPositive(fit) ==
    fit.count = 0 \/ 2000 * fit.totalCells + fit.totalLifetime + fit.totalDistance > 0

\* The strategies selectStrategyByFitness can return, over the outcomes of
\* Math.random(): any of the four on a mutation draw or when the total weight
\* is 0; otherwise the first strategy (roulette value 0) and every strategy of
\* positive weight.
selectStrategyByFitness(fitness) ==
    LET all == { Strategies[i] : i \in 1..4 }
        positive == { s \in all : WeightPositive(fitness[s]) }
        mutation == IF mutationRatePct > 0 THEN all ELSE {}
        roulette == IF mutationRatePct >= 100 THEN {}
                    ELSE IF positive = {} THEN all
                    ELSE { Strategies[1] } \cup positive
    IN  mutation \cup roulette

CeilDiv(a, d) == (a + d - 1) \div d

\* Lattice point of (row, col).
GridPoint(row, col) ==
    [ x |-> col * hexSize10 + (IF row % 2 = 0 THEN 0 ELSE hexSize10 \div 2),
      y |-> row * rowHeight ]

\* The points the random sampling of spawnCar can draw: row and col are
\* Math.floor(Math.random() * (size / step)); no bounds test is made on them.
RandomPoints(cv) ==
    { GridPoint(row, col) :
        row \in 0..(CeilDiv(cv.height * 10, rowHeight) - 1),
        col \in 0..(CeilDiv(cv.width, hexSize) - 1) }

InBounds(cv, pt) ==
    pt.x >= 0 /\ pt.x < cv.width * 10 /\ pt.y >= 0 /\ pt.y < cv.height * 10

\* The exhaustive scan of spawnCar: rows, then columns, in-bounds points only.
ScanPoints(cv) ==
    LET numRows == CeilDiv(cv.height * 10, rowHeight)
        numCols == CeilDiv(cv.width, hexSize)
    IN  [ n \in 1..(numRows * numCols) |->
            GridPoint((n - 1) \div numCols, (n - 1) % numCols) ]

\* Variant that takes the id without advancing nextCarId.
PlaceCar_SameId(b, pt, strategy, turn, dir, t) ==
    LET key == getHexKey(pt.x, pt.y)
        carId == b.nextCarId
    IN  [b EXCEPT
            !.occupiedCells = Put(@, key, (IF key \in DOMAIN @ THEN @[key] ELSE 0) + 1),
            !.cellTimestamps = Put(@, key, t),
            !.cellOwners = Put(@, key, carId),
            !.cars = Append(@, NewCar(pt.x, pt.y, strategy, carId, turn, dir, t))]

\* The board after a car is created on pt.
PlaceCar(b, pt, strategy, turn, dir, t) ==
    LET key == getHexKey(pt.x, pt.y)
        carId == b.nextCarId
    IN  [b EXCEPT
            !.nextCarId = @ + 1,
            !.occupiedCells = Put(@, key, (IF key \in DOMAIN @ THEN @[key] ELSE 0) + 1),
            !.cellTimestamps = Put(@, key, t),
            !.cellOwners = Put(@, key, carId),
            !.cars = Append(@, NewCar(pt.x, pt.y, strategy, carId, turn, dir, t))]

\* Variant of spawnCar without the exhaustive scan: it gives up when the random
\* attempts have all hit occupied cells.
spawnCar_NoScan(b, t) ==
    LET random == RandomPoints(b.canvas)
        free(pt) == ~IsOccupied(b.occupiedCells, getHexKey(pt.x, pt.y))
        sampled == { pt \in random : free(pt) }
        fails == \E pt \in random : ~free(pt)
    IN  { [ ok |-> TRUE,
            board |-> PlaceCar(b, c[1], c[2].strategy, c[2].turn, c[2].dir, t) ] :
            c \in sampled
                  \X { d \in b.rng.cars : d.strategy \in selectStrategyByFitness(b.strategyFitness) } }
        \cup (IF fails THEN { [ ok |-> FALSE, board |-> b ] } ELSE {})

\* CircuitBoard.prototype.spawnCar: every [ok, board] it can end in.  A random
\* attempt can hit any free random point; all attempts can miss only when some
\* random point is occupied, and then the scan takes the first free point.
spawnCar(b, t) ==
    LET random == RandomPoints(b.canvas)
        free(pt) == ~IsOccupied(b.occupiedCells, getHexKey(pt.x, pt.y))
        scan == ScanPoints(b.canvas)
        scanFree == { n \in DOMAIN scan : InBounds(b.canvas, scan[n]) /\ free(scan[n]) }
        first == CHOOSE n \in scanFree : \A m \in scanFree : n <= m
        sampled == { pt \in random : free(pt) }
        scanned == IF \A pt \in random : free(pt) THEN {}
                   ELSE IF scanFree = {} THEN {}
                   ELSE { scan[first] }
        fails == (\E pt \in random : ~free(pt)) /\ scanFree = {}
    IN  { [ ok |-> TRUE,
            board |-> PlaceCar(b, c[1], c[2].strategy, c[2].turn, c[2].dir, t) ] :
            c \in (sampled \cup scanned)
                  \X { d \in b.rng.cars : d.strategy \in selectStrategyByFitness(b.strategyFitness) } }
        \cup (IF fails THEN { [ ok |-> FALSE, board |-> b ] } ELSE {})

\* ------------------------------------------------------ pruning and eviction
\* Variant that frees the cells of every car with an id up to carId.
removeCarTraces_UpTo(b, carId) ==
    LET keysToRemove == { k \in DOMAIN b.cellOwners : b.cellOwners[k] <= carId }
    IN  [b EXCEPT
            !.occupiedCells = Delete(@, keysToRemove),
            !.cellTimestamps = Delete(@, keysToRemove),
            !.cellOwners = Delete(@, keysToRemove),
            !.allLines = FilterSeq(@, { i \in 1..Len(@) : @[i].carId # carId }, 1),
            !.deadCarIds = Delete(@, {carId})]

\* Variant that frees the cells and segments of the car but keeps its dead
\* record.
removeCarTraces_KeepRecord(b, carId) ==
    LET keysToRemove == { k \in DOMAIN b.cellOwners : b.cellOwners[k] = carId }
    IN  [b EXCEPT
            !.occupiedCells = Delete(@, keysToRemove),
            !.cellTimestamps = Delete(@, keysToRemove),
            !.cellOwners = Delete(@, keysToRemove),
            !.allLines = FilterSeq(@, { i \in 1..Len(@) : @[i].carId # carId }, 1)]

\* CircuitBoard.prototype.removeCarTraces
removeCarTraces(b, carId) ==
    LET keysToRemove == { k \in DOMAIN b.cellOwners : b.cellOwners[k] = carId }
    IN  [b EXCEPT
            !.occupiedCells = Delete(@, keysToRemove),
            !.cellTimestamps = Delete(@, keysToRemove),
            !.cellOwners = Delete(@, keysToRemove),
            !.allLines = FilterSeq(@, { i \in 1..Len(@) : @[i].carId # carId }, 1),
            !.deadCarIds = Delete(@, {carId})]

\* Variant that collects nothing: no cell ever counts as faded.
FadedKeys_Never(b, currentTime, aliveCarIds) == {}

\* Variant that collects the cells of every dead car, whenever it died.
FadedKeys_NoInterval(b, currentTime, aliveCarIds) ==
    { k \in DOMAIN b.cellTimestamps :
        /\ k \in DOMAIN b.cellOwners
        /\ b.cellOwners[k] \notin aliveCarIds
        /\ b.cellOwners[k] \in DOMAIN b.deadCarIds }

\* The cells clearFadedCells collects: owned by a car that is not alive, is
\* recorded dead, and died more than traceLifetime + fadeDuration ago.
FadedKeys(b, currentTime, aliveCarIds) ==
    { k \in DOMAIN b.cellTimestamps :
        /\ k \in DOMAIN b.cellOwners
        /\ b.cellOwners[k] \notin aliveCarIds
        /\ b.cellOwners[k] \in DOMAIN b.deadCarIds
        /\ currentTime - b.deadCarIds[b.cellOwners[k]]
              > (traceLifetime + fadeDuration) * 1000 }

\* Variant that keeps every line.
KeepLine_Always(line, deadCarIdsToCleanup) == TRUE

\* The test that keeps a line when faded cells were removed:
\* line.carId && !deadCarIdsToCleanup.has(line.carId)
KeepLine(line, deadCarIdsToCleanup) ==
    line.carId # 0 /\ line.carId \notin deadCarIdsToCleanup

\* Variant that prunes in both modes.
clearFadedCells_AnyMode(b, currentTime, aliveCarIds) ==
    LET counted == [b EXCEPT !.cleanupFrameCounter = (@ + 1) % CleanupPeriod]
        keysToRemove == FadedKeys(b, currentTime, aliveCarIds)
        deadCarIdsToCleanup == { b.cellOwners[k] : k \in keysToRemove }
    IN  IF counted.cleanupFrameCounter % CleanupPeriod # 0 \/ keysToRemove = {}
        THEN counted
        ELSE [counted EXCEPT
                !.keysToRemove = keysToRemove,
                !.occupiedCells = Delete(@, keysToRemove),
                !.cellTimestamps = Delete(@, keysToRemove),
                !.cellOwners = Delete(@, keysToRemove),
                !.allLines = FilterSeq(@, { i \in 1..Len(@) :
                                   KeepLine(@[i], deadCarIdsToCleanup) }, 1),
                !.deadCarIds = Delete(@, deadCarIdsToCleanup)]

\* CircuitBoard.prototype.clearFadedCells
clearFadedCells(b, currentTime, aliveCarIds) ==
    IF b.infiniteLifetime THEN b
    ELSE LET counted == [b EXCEPT !.cleanupFrameCounter = (@ + 1) % CleanupPeriod]
             keysToRemove == FadedKeys(b, currentTime, aliveCarIds)
             deadCarIdsToCleanup == { b.cellOwners[k] : k \in keysToRemove }
         IN  IF counted.cleanupFrameCounter % CleanupPeriod # 0 THEN counted
             ELSE IF keysToRemove = {}
             THEN counted
             ELSE [counted EXCEPT
                     !.keysToRemove = keysToRemove,
                     !.occupiedCells = Delete(@, keysToRemove),
                     !.cellTimestamps = Delete(@, keysToRemove),
                     !.cellOwners = Delete(@, keysToRemove),
                     !.allLines = FilterSeq(@, { i \in 1..Len(@) :
                                        KeepLine(@[i], deadCarIdsToCleanup) }, 1),
                     !.deadCarIds = Delete(@, deadCarIdsToCleanup)]

\* ---------------------------------------------------------------- the frame
\* Variant that picks the dead car with the latest death time.
OldestDead_Newest(dead) ==
    CHOOSE id \in DOMAIN dead :
        \A other \in DOMAIN dead :
            dead[id] > dead[other] \/ (dead[id] = dead[other] /\ id >= other)

\* Oldest dead car of the eviction loop: keys are visited in ascending id order
\* and a later one replaces the choice only with a strictly smaller death time.
OldestDead(dead) ==
    CHOOSE id \in DOMAIN dead :
        \A other \in DOMAIN dead :
            dead[id] < dead[other] \/ (dead[id] = dead[other] /\ id <= other)

\* The cell tables and the cars of a board, as a call of spawnCar finds them.
Tables(b) ==
    [ occupiedCells |-> b.occupiedCells, cellTimestamps |-> b.cellTimestamps,
      cellOwners |-> b.cellOwners, cars |-> b.cars, nextCarId |-> b.nextCarId ]

\* Variant without the population test of the spawn block.
BelowCeiling_Always(b) == TRUE

\* this.cars.length < this.maxCars
BelowCeiling(b) == Len(b.cars) < b.maxCars

\* Variant without the delay test of the spawn block.
SpawnDue_Always(b, t) == TRUE

\* currentTime - this.lastSpawnTime >= this.spawnDelay
SpawnDue(b, t) == t - b.lastSpawnTime >= b.spawnDelay

\* The spawn block at the end of a step: every board it can end in.
SpawnStep(b, t) ==
    IF BelowCeiling(b) /\ SpawnDue(b, t)
    THEN UNION {
           IF b.infiniteLifetime /\ ~r.ok /\ DOMAIN r.board.deadCarIds # {}
           THEN LET oldest == OldestDead(r.board.deadCarIds)
                    evicted == removeCarTraces(r.board, oldest)
                IN  { [r2.board EXCEPT !.lastSpawnTime = t,
                                       !.spawnSuccess = <<FALSE, r2.ok>>,
                                       !.spawnCalls = <<Tables(b), Tables(evicted)>>,
                                       !.oldestCarId = <<oldest>>] :
                        r2 \in spawnCar(evicted, t) }
           ELSE { [r.board EXCEPT !.lastSpawnTime = t, !.spawnSuccess = <<r.ok>>,
                                  !.spawnCalls = <<Tables(b)>>] }
           : r \in spawnCar(b, t) }
    ELSE { b }

\* Phases 1 to 4 and the spawn block, for one list of intended moves.
StepWith(b, entries, t) ==
    LET b3 == Phase3(b, entries, entries, 1, t)
        b4 == Phase4(b3, Len(b3.cars), t)
    IN  SpawnStep([b4 EXCEPT !.intendedMoves = entries,
                             !.deadAfterPhase4 = b4.deadCarIds,
                             !.linesAfterPhase4 = b4.allLines], t)

\* Variant with the completion test of the legacy code: the animation is
\* complete when no car is active and some car has died.
LegacyCompletion_AllStuck(b) == Len(b.cars) = 0 /\ DOMAIN b.deadCarIds # {}

\* The test of the disabled legacy completion code at the head of draw(): if (false).
LegacyCompletion(b) == FALSE

\* CircuitBoard.prototype.draw at time currentTime: every board it can end in.
draw(board, currentTime) ==
    LET b0 == [board EXCEPT !.kind = "draw", !.stepped = FALSE, !.keysToRemove = {},
                            !.intendedMoves = <<>>, !.stuckCars = <<>>,
                            !.deadAfterPhase4 = <<>>, !.linesAfterPhase4 = <<>>,
                            !.spawnSuccess = <<>>, !.spawnCalls = <<>>, !.blockedCommits = <<>>,
                            !.oldestCarId = Null]
        aliveCarIds == { b0.cars[i].id : i \in 1..Len(b0.cars) }
        b1 == clearFadedCells(b0, currentTime, aliveCarIds)
    IN  IF LegacyCompletion(board) THEN { [b0 EXCEPT !.kind = "complete"] }
        ELSE
        IF currentTime - b1.lastStepTime >= stepDelay
        THEN LET b2 == [b1 EXCEPT !.lastStepTime = currentTime, !.stepped = TRUE]
             IN  UNION { StepWith(b2, entries, currentTime) :
                           entries \in IntendedMoveLists(b2, 1) }
        ELSE { b1 }

\* The options record of a board.
OptionsOf(b) == [ maxCars |-> b.maxCars, spawnDelay |-> b.spawnDelay ]

\* The spawn delays a board is constructed with: none, or the delay of the bounds.
SpawnDelays == { 0, spawnDelay }

\* The car draws of a run: boards that fill up at once follow one draw only.
InitialDraws(delay) ==
    IF delay = 0 THEN { { CarDraw("wall-follower", "left", 3) } } ELSE CarDrawSets

RECURSIVE InitialSpawns(_, _, _)
\* The loop of init() and of the resize timeout: with no spawn delay, maxCars
\* calls of spawnCar, whatever they return.
InitialSpawns(b, i, t) ==
    IF b.spawnDelay # 0 \/ i >= b.maxCars THEN { b }
    ELSE UNION { InitialSpawns(r.board, i + 1, t) : r \in spawnCar(b, t) }

\* The reset made by the resize timeout, on a canvas of the new size: every
\* board it can end in.
onResize(board, newCanvas, t) ==
    LET cleared == [board EXCEPT
                      !.kind = "resize", !.stepped = FALSE, !.keysToRemove = {},
                      !.intendedMoves = <<>>, !.stuckCars = <<>>,
                      !.deadAfterPhase4 = <<>>, !.linesAfterPhase4 = <<>>,
                      !.spawnSuccess = <<>>, !.spawnCalls = <<>>, !.blockedCommits = <<>>,
                      !.oldestCarId = Null,
                      !.canvas = newCanvas,
                      !.cars = <<>>,
                      !.occupiedCells = <<>>,
                      !.cellTimestamps = <<>>,
                      !.cellOwners = <<>>,
                      !.deadCarIds = <<>>,
                      !.allLines = <<>>,
                      !.lastSpawnTime = 0]
    IN  InitialSpawns(cleared, 0, t)

\* The state of a CircuitBoard when its constructor reaches init().
Constructed(infinite, draws) ==
    [ kind |-> "none", stepped |-> FALSE, keysToRemove |-> {}, intendedMoves |-> <<>>,
      stuckCars |-> <<>>, deadAfterPhase4 |-> <<>>, linesAfterPhase4 |-> <<>>,
      spawnSuccess |-> <<>>, spawnCalls |-> <<>>, blockedCommits |-> <<>>,
      oldestCarId |-> Null,
      canvas |-> [width |-> CanvasWidth, height |-> CanvasHeight],
      infiniteLifetime |-> infinite, maxCars |-> maxCars, spawnDelay |-> spawnDelay,
      rng |-> draws,
      cars |-> <<>>, occupiedCells |-> <<>>, cellTimestamps |-> <<>>,
      cellOwners |-> <<>>, allLines |-> <<>>, nextCarId |-> 0, deadCarIds |-> <<>>,
      strategyFitness |-> [ s \in { Strategies[i] : i \in 1..4 } |->
          [ totalLifetime |-> 0, count |-> 0, totalDistance |-> 0, totalCells |-> 0 ] ],
      lastStepTime |-> 0, lastSpawnTime |-> 0, cleanupFrameCounter |-> 0 ]

\* The board held by the variables.
Board ==
    [ kind |-> frame.kind, stepped |-> frame.stepped, keysToRemove |-> frame.keysToRemove,
      intendedMoves |-> frame.intendedMoves, stuckCars |-> frame.stuckCars,
      deadAfterPhase4 |-> frame.deadAfterPhase4,
      linesAfterPhase4 |-> frame.linesAfterPhase4,
      spawnSuccess |-> frame.spawnSuccess, spawnCalls |-> frame.spawnCalls,
      blockedCommits |-> frame.blockedCommits,
      oldestCarId |-> frame.oldestCarId,
      canvas |-> canvas, infiniteLifetime |-> infiniteLifetime,
      maxCars |-> options.maxCars, spawnDelay |-> options.spawnDelay, rng |-> rng,
      cars |-> cars, occupiedCells |-> occupiedCells, cellTimestamps |-> cellTimestamps,
      cellOwners |-> cellOwners, allLines |-> allLines, nextCarId |-> nextCarId,
      deadCarIds |-> deadCarIds, strategyFitness |-> strategyFitness,
      lastStepTime |-> lastStepTime, lastSpawnTime |-> lastSpawnTime,
      cleanupFrameCounter |-> cleanupFrameCounter ]

FrameOf(b) ==
    [ kind |-> b.kind, stepped |-> b.stepped, keysToRemove |-> b.keysToRemove,
      intendedMoves |-> b.intendedMoves, stuckCars |-> b.stuckCars,
      deadAfterPhase4 |-> b.deadAfterPhase4, linesAfterPhase4 |-> b.linesAfterPhase4,
      spawnSuccess |-> b.spawnSuccess, spawnCalls |-> b.spawnCalls,
      blockedCommits |-> b.blockedCommits,
      oldestCarId |-> b.oldestCarId ]

\* init(): setup, then animate(), which runs the first draw() at once.
Init ==
    /\ now = StartTime
    /\ calc = Null
    /\ \E infinite \in BOOLEAN, limit \in 1..maxCars, delay \in SpawnDelays :
         \E draws \in InitialDraws(delay) :
         \E b0 \in InitialSpawns(
                      [Constructed(infinite, [cars |-> draws, shuffles |-> ShuffleSubset])
                         EXCEPT !.maxCars = limit, !.spawnDelay = delay],
                      0, StartTime) :
         \E b \in draw(b0, StartTime) :
            /\ rng = b.rng
            /\ options = OptionsOf(b)
            /\ canvas = b.canvas
            /\ infiniteLifetime = b.infiniteLifetime
            /\ cars = b.cars
            /\ occupiedCells = b.occupiedCells
            /\ cellTimestamps = b.cellTimestamps
            /\ cellOwners = b.cellOwners
            /\ allLines = b.allLines
            /\ nextCarId = b.nextCarId
            /\ deadCarIds = b.deadCarIds
            /\ strategyFitness = b.strategyFitness
            /\ lastStepTime = b.lastStepTime
            /\ lastSpawnTime = b.lastSpawnTime
            /\ cleanupFrameCounter = b.cleanupFrameCounter
            /\ frame = FrameOf(b)

Install(b) ==
    /\ rng' = rng
    /\ calc' = calc
    /\ options' = options
    /\ canvas' = b.canvas
    /\ infiniteLifetime' = b.infiniteLifetime
    /\ cars' = b.cars
    /\ occupiedCells' = b.occupiedCells
    /\ cellTimestamps' = b.cellTimestamps
    /\ cellOwners' = b.cellOwners
    /\ allLines' = b.allLines
    /\ nextCarId' = b.nextCarId
    /\ deadCarIds' = b.deadCarIds
    /\ strategyFitness' = b.strategyFitness
    /\ lastStepTime' = b.lastStepTime
    /\ lastSpawnTime' = b.lastSpawnTime
    /\ cleanupFrameCounter' = b.cleanupFrameCounter
    /\ frame' = FrameOf(b)

\* One animation frame: Date.now() has advanced by dt, then draw() runs.
Draw ==
    /\ now + FrameMs < StartTime + MaxFrames * FrameMs
    /\ now' = now + FrameMs
    /\ \E b \in draw(Board, now + FrameMs) :
          /\ b.nextCarId <= MaxCarIds
          /\ Install(b)

\* The resize timeout fires after the window changed by ResizeThreshold or more.
Resize ==
    /\ canvas.width = CanvasWidth
    /\ \E b \in onResize(Board, [width |-> CanvasWidth - ResizeThreshold,
                                 height |-> canvas.height], now) :
          /\ b.nextCarId <= MaxCarIds
          /\ Install(b)
    /\ UNCHANGED now

Next == Draw \/ Resize

Spec == Init /\ [][Next]_vars

\* The clock of a frame: Date.now() moves on by one frame interval.  Within
\* Next these are the Draw steps.
Tick ==
    /\ now + FrameMs < StartTime + MaxFrames * FrameMs
    /\ now' = now + FrameMs

\* requestAnimationFrame keeps calling animate(): a frame that can run does run.
FairSpec == Spec /\ WF_now(Tick)

\* ------------------------------------------- the candidate list on its own
\* calculateMove's list construction, applied to every strategy, heading and
\* turn preference, with every outcome of its draws.
InitCalc ==
    /\ now = StartTime
    /\ rng = [cars |-> {}, shuffles |-> ShuffleDraws]
    /\ \E st \in { Strategies[i] : i \in 1..4 }, h \in Directions,
          turn \in {"right", "left"} :
          calc = [ strategy |-> st, straightAhead |-> h,
                   preferredTurnDirection |-> turn, priorities |-> Null ]
    /\ LET b == Constructed(FALSE, rng)
       IN  /\ canvas = b.canvas
           /\ infiniteLifetime = b.infiniteLifetime
           /\ options = OptionsOf(b)
           /\ cars = b.cars
           /\ occupiedCells = b.occupiedCells
           /\ cellTimestamps = b.cellTimestamps
           /\ cellOwners = b.cellOwners
           /\ allLines = b.allLines
           /\ nextCarId = b.nextCarId
           /\ deadCarIds = b.deadCarIds
           /\ strategyFitness = b.strategyFitness
           /\ lastStepTime = b.lastStepTime
           /\ lastSpawnTime = b.lastSpawnTime
           /\ cleanupFrameCounter = b.cleanupFrameCounter
           /\ frame = FrameOf(b)

BuildPriorities ==
    /\ calc # Null
    /\ calc.priorities = Null
    /\ \E p \in PrioritySet(calc.strategy, calc.straightAhead,
                            calc.preferredTurnDirection, rng.shuffles) :
          calc' = [calc EXCEPT !.priorities = p]
    /\ UNCHANGED << now, canvas, infiniteLifetime, options, cars, occupiedCells,
                    cellTimestamps, cellOwners, allLines, nextCarId, deadCarIds,
                    strategyFitness, lastStepTime, lastSpawnTime, cleanupFrameCounter,
                    frame, rng >>

SpecCalc == InitCalc /\ [][BuildPriorities]_vars

\* ------------------------------------------- the darkness factor on its own
\* The variables of a board on which no frame has run.
BoardIs(b) ==
    /\ canvas = b.canvas
    /\ infiniteLifetime = b.infiniteLifetime
    /\ options = OptionsOf(b)
    /\ cars = b.cars
    /\ occupiedCells = b.occupiedCells
    /\ cellTimestamps = b.cellTimestamps
    /\ cellOwners = b.cellOwners
    /\ allLines = b.allLines
    /\ nextCarId = b.nextCarId
    /\ deadCarIds = b.deadCarIds
    /\ strategyFitness = b.strategyFitness
    /\ lastStepTime = b.lastStepTime
    /\ lastSpawnTime = b.lastSpawnTime
    /\ cleanupFrameCounter = b.cleanupFrameCounter
    /\ frame = FrameOf(b)

BoardUnchanged ==
    UNCHANGED << now, canvas, infiniteLifetime, options, cars, occupiedCells,
                 cellTimestamps, cellOwners, allLines, nextCarId, deadCarIds,
                 strategyFitness, lastStepTime, lastSpawnTime, cleanupFrameCounter,
                 frame, rng >>

\* A fraction num / den, den > 0.
Frac(num, den) == [ num |-> num, den |-> den ]

\* Variant without Math.min: the fade progress is not clamped to 1.
darknessFactor_Unclamped(infinite, isAlive, deathTime, currentTime, lifetimeMs, fadeDurationMs) ==
    IF ~infinite /\ ~isAlive /\ deathTime # Null
    THEN IF currentTime - deathTime[1] <= lifetimeMs THEN Frac(1, 1)
         ELSE Frac(fadeDurationMs - (currentTime - deathTime[1] - lifetimeMs), fadeDurationMs)
    ELSE Frac(1, 1)

\* darknessFactor of draw() for one car's segments, as a fraction; deathTime is
\* this.deadCarIds[numCarId], Null when undefined.  fadeStartTime / 0 is
\* Infinity in the code, which Math.min turns into 1.
darknessFactor(infinite, isAlive, deathTime, currentTime, lifetimeMs, fadeDurationMs) ==
    IF ~infinite /\ ~isAlive /\ deathTime # Null
    THEN LET timeSinceDeath == currentTime - deathTime[1]
             fadeStartTime == timeSinceDeath - lifetimeMs
             fadeProgress == IF fadeDurationMs = 0 \/ fadeStartTime >= fadeDurationMs
                             THEN Frac(1, 1)
                             ELSE Frac(fadeStartTime, fadeDurationMs)
         IN  IF timeSinceDeath <= lifetimeMs THEN Frac(1, 1)
             ELSE Frac(fadeProgress.den - fadeProgress.num, fadeProgress.den)
    ELSE Frac(1, 1)

\* The inputs the factor is computed for, in ms.
ShadeLifetimes == { 0, 1000, 2000 }
ShadeFadeDurations == { 500, 1000, 2000 }
ShadeDeathTimes == { StartTime, StartTime + 1000 }
ShadeTimes == { StartTime + 250 * n : n \in 0..20 }

InitShade ==
    /\ now \in ShadeTimes
    /\ rng = [cars |-> {}, shuffles |-> {}]
    /\ \E infinite \in BOOLEAN : BoardIs(Constructed(infinite, rng))
    /\ \E isAlive \in BOOLEAN, dt \in ShadeDeathTimes, recorded \in BOOLEAN,
          tl \in ShadeLifetimes, fd \in ShadeFadeDurations :
          /\ dt <= now
          /\ calc = [ isAlive |-> isAlive,
                      deathTime |-> IF recorded /\ ~isAlive THEN <<dt>> ELSE Null,
                      lifetimeMs |-> tl, fadeDurationMs |-> fd, factor |-> Null ]

Shade ==
    /\ calc # Null
    /\ calc.factor = Null
    /\ calc' = [calc EXCEPT !.factor =
                  << darknessFactor(infiniteLifetime, calc.isAlive, calc.deathTime, now,
                                    calc.lifetimeMs, calc.fadeDurationMs) >>]
    /\ BoardUnchanged

SpecShade == InitShade /\ [][Shade]_vars

\* --------------------------------------------- the constructor on its own
\* options.name !== undefined ? options.name : default; an option is <<>> when
\* it is not given and <<value>> when it is.
OptionOr(given, default) == IF given # <<>> THEN given[1] ELSE default

\* options.name || default: a given value of 0 counts as not given.
OptionOrTruthy(given, default) ==
    IF given # <<>> /\ given[1] # 0 THEN given[1] ELSE default

\* The CircuitBoard constructor: the fields it sets from the options (delays
\* in ms, mutationRate in percent), and whether it threw or went on to init().
CircuitBoard(o) ==
    [ maxCars |-> OptionOrTruthy(o.maxCars, 2),
      mutationRate |-> OptionOr(o.mutationRate, 10),
      stepDelay |-> OptionOr(o.stepDelay, 10),
      spawnDelay |-> OptionOr(o.spawnDelay, 100),
      thrown |-> FALSE,
      initCalled |-> TRUE ]

\* The option values the constructor is called with.
ConfigDelays == { <<>>, <<-1000>>, <<-1>>, <<0>>, <<3000>> }
ConfigMutationRates == { <<>>, <<-10>>, <<0>>, <<10>>, <<100>>, <<150>> }
ConfigMaxCars == { <<>>, <<0>>, <<1>>, <<2>> }

InitConfig ==
    /\ now = StartTime
    /\ rng = [cars |-> {}, shuffles |-> {}]
    /\ BoardIs(Constructed(FALSE, rng))
    /\ \E sd \in ConfigDelays, pd \in ConfigDelays, mr \in ConfigMutationRates,
          mc \in ConfigMaxCars :
          calc = [ options |-> [ stepDelay |-> sd, spawnDelay |-> pd,
                                 mutationRate |-> mr, maxCars |-> mc ],
                   board |-> Null ]

\* new CircuitBoard(options)
Construct ==
    /\ calc # Null
    /\ calc.board = Null
    /\ calc' = [calc EXCEPT !.board = << CircuitBoard(calc.options) >>]
    /\ BoardUnchanged

SpecConfig == InitConfig /\ [][Construct]_vars

\* --------------------------------------------- strategy draws on their own
\* combinedFitness of a strategy with data: avgCells * 2 + avgLifetime (s) +
\* avgDistance (px) / 100, for totals whose sum divides evenly.
combinedFitness(fit) ==
    (2000 * fit.totalCells + fit.totalLifetime + fit.totalDistance) \div (1000 * fit.count)

\* Variant whose weight is the combined fitness itself, not its square.
StrategyWeight_Linear(fit) ==
    IF fit.count > 0 THEN combinedFitness(fit) ELSE 1

\* The weight of a strategy in the roulette: 1.0 without data, else
\* Math.pow(combinedFitness, 2).
StrategyWeight(fit) ==
    IF fit.count > 0 THEN combinedFitness(fit) * combinedFitness(fit) ELSE 1

RECURSIVE CumulativeWeight(_, _)
CumulativeWeight(weights, i) ==
    IF i = 0 THEN 0 ELSE weights[i] + CumulativeWeight(weights, i - 1)

\* Variant of the roulette that compares the random value with each weight,
\* not with the running sum.
RouletteChoice_NoSum(weights, k, resolution) ==
    IF \E i \in 1..Len(weights) : k <= resolution * weights[i]
    THEN CHOOSE i \in 1..Len(weights) :
            /\ k <= resolution * weights[i]
            /\ \A j \in 1..(i - 1) : k > resolution * weights[j]
    ELSE Len(weights)

\* The weighted selection loop for random = k / resolution: the first index
\* whose cumulative weight is at least random, the last index as fallback.
RouletteChoice(weights, k, resolution) ==
    IF \E i \in 1..Len(weights) : k <= resolution * CumulativeWeight(weights, i)
    THEN CHOOSE i \in 1..Len(weights) :
            /\ k <= resolution * CumulativeWeight(weights, i)
            /\ \A j \in 1..(i - 1) : k > resolution * CumulativeWeight(weights, j)
    ELSE Len(weights)

\* selectStrategyByFitness for given outcomes of Math.random(): u / 4 is the
\* value compared with mutationRate, k / resolution is Math.random() *
\* totalWeight.  The strategies it can return (all four on a mutation draw
\* or when the total weight is 0).
DrawnStrategies(fitness, ratePct, u, k, resolution) ==
    LET weights == [ i \in 1..4 |-> StrategyWeight(fitness[Strategies[i]]) ]
    IN  IF 25 * u < ratePct \/ CumulativeWeight(weights, 4) = 0
        THEN { Strategies[i] : i \in 1..4 }
        ELSE { Strategies[RouletteChoice(weights, k, resolution)] }

\* The fitness records a strategy is seeded with: one retired car.
SeedRecords ==
    { [ totalLifetime |-> l, count |-> 1, totalDistance |-> 0, totalCells |-> c ] :
        l \in { 1000, 2000, 4000 }, c \in { 1, 2, 4 } }

\* The number of random values per unit of weight.
Resolutions == { 1, 2, 4 }

InitDraws ==
    /\ now = StartTime
    /\ rng = [cars |-> {}, shuffles |-> {}]
    /\ BoardIs(Constructed(FALSE, rng))
    /\ \E st \in { Strategies[i] : i \in 1..4 }, seed \in SeedRecords, res \in Resolutions :
          calc = [ seeded |-> st,
                   fitness |-> [Constructed(FALSE, rng).strategyFitness EXCEPT ![st] = seed],
                   mutationRate |-> 0, resolution |-> res, counts |-> Null ]

\* Repeated draws, one for each value of the random numbers: how many of
\* them return each strategy.
RepeatDraws ==
    /\ calc # Null
    /\ calc.counts = Null
    /\ LET weights == [ i \in 1..4 |-> StrategyWeight(calc.fitness[Strategies[i]]) ]
           total == CumulativeWeight(weights, 4)
           draws == (0..3) \X (0..(total * calc.resolution - 1))
       IN  calc' = [calc EXCEPT !.counts =
                      << [ s \in { Strategies[i] : i \in 1..4 } |->
                             Cardinality({ d \in draws :
                                s \in DrawnStrategies(calc.fitness, calc.mutationRate,
                                                      d[1], d[2], calc.resolution) }) ] >>]
    /\ BoardUnchanged

SpecDraws == InitDraws /\ [][RepeatDraws]_vars

\* ------------------------------------------------ single draws of a strategy
\* Fitness records with a travelled distance, of one car or of two.
RouletteSeeds ==
    { [ totalLifetime |-> l, count |-> 1, totalDistance |-> d, totalCells |-> c ] :
        l \in { 1000, 2000 }, c \in { 1, 2 }, d \in { 0, 2000 } }
    \cup { [ totalLifetime |-> 4000, count |-> 2, totalDistance |-> 2000, totalCells |-> 2 ] }

\* A board with one seeded strategy and one outcome k of Math.random() *
\* totalWeight, taken as a whole number below the total weight.
InitRoulette ==
    /\ now = StartTime
    /\ rng = [cars |-> {}, shuffles |-> {}]
    /\ BoardIs(Constructed(FALSE, rng))
    /\ \E st \in { Strategies[i] : i \in 1..4 }, seed \in RouletteSeeds :
          LET fitness == [Constructed(FALSE, rng).strategyFitness EXCEPT ![st] = seed]
              weights == [ i \in 1..4 |-> StrategyWeight(fitness[Strategies[i]]) ]
          IN  \E k \in 0..(CumulativeWeight(weights, 4) - 1) :
                 calc = [ seeded |-> st, fitness |-> fitness, mutationRate |-> 0,
                          k |-> k, drawn |-> Null ]

\* One call of selectStrategyByFitness that is not a mutation draw.
DrawOne ==
    /\ calc # Null
    /\ calc.drawn = Null
    /\ calc' = [calc EXCEPT !.drawn =
                   << DrawnStrategies(calc.fitness, calc.mutationRate, 3, calc.k, 1) >>]
    /\ BoardUnchanged

SpecRoulette == InitRoulette /\ [][DrawOne]_vars

\* ------------------------------------------- one wall-follower on a 5x5 grid
\* A canvas of five columns and five rows of cells, in pixels.
Grid5 == [ width |-> 5 * hexSize, height |-> (5 * rowHeight) \div 10 ]

\* A board with one wall-follower spawned on the centre cell of the empty
\* 5x5 grid; calc keeps the heading and turn preference it was spawned with.
InitGrid5 ==
    /\ now = StartTime
    /\ rng = [cars |-> { CarDraw("wall-follower", "left", 3) }, shuffles |-> {}]
    /\ \E infinite \in BOOLEAN, h \in Directions, turn \in {"right", "left"} :
          /\ calc = [ heading |-> h, turn |-> turn ]
          /\ BoardIs(PlaceCar([Constructed(infinite, rng) EXCEPT
                                  !.canvas = Grid5, !.maxCars = 1],
                               GridPoint(2, 2), "wall-follower", turn, h, StartTime))

SpecGrid5 == InitGrid5 /\ [][Draw]_vars

\* ------------------------------------------------- two cars on a full start
\* The draws of the two cars a board without spawn delay starts with: two
\* wanderers, which try straight ahead first.
PairDraws == { CarDraw("wanderer", "right", 0) }

\* A board constructed with spawnDelay 0 and maxCars 2 after the loop of
\* init(): two wanderers on two free cells of the canvas, each with the
\* heading its constructor drew.
InitPairs ==
    /\ now = StartTime
    /\ calc = Null
    /\ rng = [cars |-> PairDraws, shuffles |-> {}]
    /\ \E infinite \in BOOLEAN, p1, p2 \in RandomPoints([width |-> CanvasWidth,
                                                          height |-> CanvasHeight]),
          h1 \in Directions, h2 \in {0, 3} :
          /\ p1 # p2
          /\ InBounds([width |-> CanvasWidth, height |-> CanvasHeight], p1)
          /\ InBounds([width |-> CanvasWidth, height |-> CanvasHeight], p2)
          /\ LET b0 == [Constructed(infinite, rng) EXCEPT !.spawnDelay = 0]
                 b1 == PlaceCar(b0, p1, "wanderer", "right", h1, StartTime)
                 b2 == PlaceCar(b1, p2, "wanderer", "right", h2, StartTime)
             IN  BoardIs(b2)

SpecPairs == InitPairs /\ [][Draw]_vars

\* ------------------------------------------------------------------ claims
\* Helpers of the claims' formulas: what the last frame's locals say.
Entries == frame.intendedMoves

CarIds(seq) == { seq[i].id : i \in 1..Len(seq) }

KeyOf(car) == getHexKey(car.x, car.y)

\* The car with this id as the step left it: still active, or in stuckCars.
FinalCar(id) ==
    IF id \in CarIds(cars)
    THEN cars[CHOOSE i \in 1..Len(cars) : cars[i].id = id]
    ELSE frame.stuckCars[CHOOSE i \in 1..Len(frame.stuckCars) : frame.stuckCars[i].id = id]

\* The entries that intend the destination of entry i.
Claimants(i) ==
    { j \in 1..Len(Entries) :
        Entries[j].move # Null /\ Entries[j].snappedDestKey = Entries[i].snappedDestKey }

Contested(i) == Entries[i].move # Null /\ Cardinality(Claimants(i)) >= 2

FirstClaimant(i) == CHOOSE j \in Claimants(i) : \A k \in Claimants(i) : j <= k

Losers == { i \in 1..Len(Entries) : Contested(i) /\ FirstClaimant(i) # i }

RECURSIVE SumOver(_, _)
SumOver(f, S) ==
    IF S = {} THEN 0
    ELSE LET x == CHOOSE y \in S : TRUE IN f[x] + SumOver(f, S \ {x})

\* C1: every key of the occupancy table has count exactly 1 and an owner, and
\* no two active cars stand on the same cell key.
C1_NoDoubleOccupancy ==
    /\ \A k \in DOMAIN occupiedCells : occupiedCells[k] = 1 /\ k \in DOMAIN cellOwners
    /\ DOMAIN cellOwners = DOMAIN occupiedCells
    /\ \A i, j \in 1..Len(cars) : i # j => KeyOf(cars[i]) # KeyOf(cars[j])

\* C1 witness: a step in which two cars claimed one cell has ended with the
\* winner standing on it and at least four occupied cells.
C1_Witness ==
    /\ frame.kind = "draw" /\ frame.stepped
    /\ \E i \in 1..Len(Entries), c \in 1..Len(cars) :
          Contested(i) /\ <<KeyOf(cars[c])>> = Entries[i].snappedDestKey
    /\ Cardinality(DOMAIN occupiedCells) >= 4

\* C2: when two or more cars intend the same snapped destination in a step,
\* the cell ends owned by the first claimant in list order, that car stands
\* on it, and no other claimant stands on it.
C2_FirstClaimantCommits ==
    frame.kind = "draw" =>
        \A i \in 1..Len(Entries) : Contested(i) =>
            LET key == Entries[i].snappedDestKey[1]
                first == FirstClaimant(i)
            IN  /\ key \in DOMAIN cellOwners
                /\ cellOwners[key] = Entries[first].car.id
                /\ \A j \in Claimants(i) :
                      (KeyOf(FinalCar(Entries[j].car.id)) = key) <=> (j = first)

\* C2 witness: a step had a contested destination.
C2_Witness ==
    frame.kind = "draw" /\ \E i \in 1..Len(Entries) : Contested(i)

\* C3: every car that loses a same-destination conflict is still active at
\* the end of the step, at its old position, not stuck, and no death is
\* recorded for it.
C3_LosersStayActive ==
    frame.kind = "draw" =>
        \A i \in Losers :
            LET old == Entries[i].car
            IN  /\ old.id \in CarIds(cars)
                /\ FinalCar(old.id).x = old.x /\ FinalCar(old.id).y = old.y
                /\ ~FinalCar(old.id).stuck
                /\ old.id \notin DOMAIN frame.deadAfterPhase4

\* C4: a car is retired in a step only if none of the six directions was
\* legal for it when the step began.
C4_RetiredOnlyWithoutLegalMove ==
    frame.kind = "draw" =>
        \A i \in 1..Len(Entries) :
            Entries[i].car.id \in CarIds(frame.stuckCars) => Entries[i].legalDirs = {}

\* The strategies as a set.
StrategySet == { Strategies[i] : i \in 1..Len(Strategies) }

\* The cars of the list before a step that the step removed, by strategy.
Retired(st) ==
    { i \in 1..Len(cars) : cars[i].id \notin CarIds(cars') /\ cars[i].strategy = st }

\* C5: a car for which none of the six directions is legal when a step begins
\* is, in that step, removed from the active cars at its unchanged position,
\* recorded dead at the step's time, counted in its strategy's fitness, and
\* given a zero-length segment of its own at its position.
C5_NoMoveRetiresInPlace ==
    [][ frame'.kind = "draw" =>
          \A i \in 1..Len(frame'.intendedMoves) :
              LET e == frame'.intendedMoves[i]
                  c == e.car
                  fit == strategyFitness[c.strategy]
                  fit2 == strategyFitness'[c.strategy]
                  same == Retired(c.strategy)
              IN  e.legalDirs = {} =>
                    /\ c.id \in CarIds(cars) /\ c.id \notin CarIds(cars')
                    /\ \E k \in 1..Len(frame'.stuckCars) :
                          /\ frame'.stuckCars[k].id = c.id
                          /\ frame'.stuckCars[k].x = c.x
                          /\ frame'.stuckCars[k].y = c.y
                    /\ c.id \in DOMAIN frame'.deadAfterPhase4
                    /\ frame'.deadAfterPhase4[c.id] = now'
                    /\ \E s \in same : cars[s].id = c.id
                    /\ fit2.count = fit.count + Cardinality(same)
                    /\ fit2.totalCells
                          = fit.totalCells + SumOver([s \in same |-> cars[s].cellsVisited], same)
                    /\ \E l \in 1..Len(frame'.linesAfterPhase4) :
                          LET line == frame'.linesAfterPhase4[l]
                          IN  /\ line.carId = c.id
                              /\ line.x1 = c.x /\ line.y1 = c.y
                              /\ line.x2 = c.x /\ line.y2 = c.y
      ]_vars

\* C5 witness: a step found a car with no legal direction and retired it.
C5_Witness ==
    /\ frame.kind = "draw"
    /\ \E i \in 1..Len(Entries) :
          /\ Entries[i].legalDirs = {}
          /\ Entries[i].car.id \in CarIds(frame.stuckCars)
          /\ Entries[i].car.cellsVisited > 0

\* C6: for every strategy, heading, turn preference and outcome of the random
\* choices, the candidate list has length 6 and holds each direction once.
C6_ListIsPermutation ==
    (calc # Null /\ calc.priorities # Null) =>
        /\ Len(calc.priorities) = 6
        /\ \A d \in Directions :
              Cardinality({ i \in 1..Len(calc.priorities) : calc.priorities[i] = d }) = 1

\* C7: the move a car intends is the first direction of its candidate list
\* that is legal, no move is intended only when no listed direction is legal,
\* and every committed destination is inside the canvas and was unoccupied
\* when the step began.
C7_FirstLegalCandidate ==
    [][ frame'.kind = "draw" =>
          \A i \in 1..Len(frame'.intendedMoves) :
              LET e == frame'.intendedMoves[i]
                  final == IF e.car.id \in CarIds(cars')
                           THEN cars'[CHOOSE c \in 1..Len(cars') : cars'[c].id = e.car.id]
                           ELSE e.car
                  atStart == DOMAIN occupiedCells \ frame'.keysToRemove
              IN  /\ e.move = Null =>
                        \A k \in 1..Len(e.priorities) : e.priorities[k] \notin e.legalDirs
                  /\ e.move # Null =>
                        \E k \in 1..Len(e.priorities) :
                            /\ e.priorities[k] = e.move[1].direction
                            /\ e.priorities[k] \in e.legalDirs
                            /\ \A j \in 1..(k - 1) : e.priorities[j] \notin e.legalDirs
                  /\ (final.x # e.car.x \/ final.y # e.car.y) =>
                        /\ e.move # Null
                        /\ final.x = e.move[1].x /\ final.y = e.move[1].y
                        /\ final.x >= 0 /\ final.x < canvas.width * 10
                        /\ final.y >= 0 /\ final.y < canvas.height * 10
                        /\ KeyOf(final) \notin atStart
      ]_vars

\* C7 witness: a car's first candidate was not legal and it committed a later
\* one.
C7_Witness ==
    /\ frame.kind = "draw"
    /\ \E i \in 1..Len(Entries) :
          /\ Entries[i].move # Null
          /\ Entries[i].priorities[1] \notin Entries[i].legalDirs
          /\ Entries[i].car.id \in CarIds(cars)
          /\ FinalCar(Entries[i].car.id).x = Entries[i].move[1].x
          /\ FinalCar(Entries[i].car.id).y = Entries[i].move[1].y

\* C8: a strategy's count and totals change only in a step that retires cars
\* of that strategy, and then by exactly one count per retired car and by the
\* sums of those cars' lifetimes, distances and cells; a resize reset leaves
\* them as they are.
C8_FitnessAccumulates ==
    [][ \A st \in StrategySet :
          LET fit == strategyFitness[st]
              fit2 == strategyFitness'[st]
              same == Retired(st)
          IN  IF frame'.kind = "draw"
              THEN /\ fit2.count = fit.count + Cardinality(same)
                   /\ fit2.totalLifetime = fit.totalLifetime
                        + SumOver([s \in same |-> now' - cars[s].birthTime], same)
                   /\ fit2.totalDistance = fit.totalDistance
                        + SumOver([s \in same |-> cars[s].distanceTraveled], same)
                   /\ fit2.totalCells = fit.totalCells
                        + SumOver([s \in same |-> cars[s].cellsVisited], same)
                   /\ fit2.count >= fit.count
                   /\ fit2.totalLifetime >= fit.totalLifetime
                   /\ fit2.totalDistance >= fit.totalDistance
                   /\ fit2.totalCells >= fit.totalCells
              ELSE fit2 = fit
      ]_vars

\* C8 witness: fitness has been recorded for a car that had moved, and the
\* canvas has since been reset by a resize.
C8_Witness ==
    /\ frame.kind = "resize"
    /\ \E st \in StrategySet :
          strategyFitness[st].count >= 1 /\ strategyFitness[st].totalCells >= 1

\* A cell the step deleted: gone, or taken anew by another car.
Deleted(k) ==
    k \notin DOMAIN occupiedCells' \/ cellOwners'[k] # cellOwners[k]

\* C9: in fading mode a step deletes a cell only if the cell's owner is not an
\* active car, is recorded dead, and died more than traceLifetime +
\* fadeDuration before the step's time.
C9_PruneOnlyFadedCells ==
    [][ (frame'.kind = "draw" /\ ~infiniteLifetime) =>
          \A k \in DOMAIN occupiedCells :
              Deleted(k) =>
                  /\ cellOwners[k] \notin CarIds(cars)
                  /\ cellOwners[k] \in DOMAIN deadCarIds
                  /\ now' - deadCarIds[cellOwners[k]] > (traceLifetime + fadeDuration) * 1000
      ]_vars

\* C9 witness: a prune has removed cells while an active car's cells and the
\* cells of a car that died inside the interval stayed.
C9_Witness ==
    /\ frame.kind = "draw" /\ ~infiniteLifetime
    /\ frame.keysToRemove # {}
    /\ \E k \in DOMAIN cellOwners : cellOwners[k] \in CarIds(cars)
    /\ \E k \in DOMAIN cellOwners :
          /\ cellOwners[k] \in DOMAIN deadCarIds
          /\ deadCarIds[cellOwners[k]] < now

\* C10: in fading mode a step removes a segment from the trace list only if
\* the segment's car is not active, is recorded dead, and died more than
\* traceLifetime + fadeDuration before the step's time.
C10_PruneOnlyFadedSegments ==
    [][ (frame'.kind = "draw" /\ ~infiniteLifetime) =>
          \A i \in 1..Len(allLines) :
              (\A j \in 1..Len(allLines') : allLines'[j] # allLines[i]) =>
                  /\ allLines[i].carId \notin CarIds(cars)
                  /\ allLines[i].carId \in DOMAIN deadCarIds
                  /\ now' - deadCarIds[allLines[i].carId]
                        > (traceLifetime + fadeDuration) * 1000
      ]_vars

\* The time of the first frame whose cleanupFrameCounter is a multiple of
\* CleanupPeriod.
FirstCleanupTime == StartTime + (CleanupPeriod - 1) * FrameMs

\* Car id is recorded dead in fading mode, and the first cleanup frame is
\* still to come and lies after the end of the car's fade interval.
FadesBeforeCleanup(id) ==
    /\ ~infiniteLifetime
    /\ id \in DOMAIN deadCarIds
    /\ now < FirstCleanupTime
    /\ FirstCleanupTime - deadCarIds[id] > (traceLifetime + fadeDuration) * 1000

\* Some retired car's fade interval ends before the first cleanup frame.
FadingTracePending == \E id \in 0..MaxCarIds : FadesBeforeCleanup(id)

\* The first cleanup frame is past, and every cell and every segment belongs
\* to an active car or to a dead car whose fade interval had not ended at
\* that frame: nothing is left of a car whose interval had ended.
PrunedClean ==
    LET kept == { id \in DOMAIN deadCarIds :
                    FirstCleanupTime - deadCarIds[id]
                        <= (traceLifetime + fadeDuration) * 1000 }
    IN  /\ now >= FirstCleanupTime
        /\ DOMAIN deadCarIds = kept
        /\ DOMAIN occupiedCells = DOMAIN cellOwners
        /\ \A k \in DOMAIN cellOwners : cellOwners[k] \in CarIds(cars) \cup kept
        /\ \A i \in 1..Len(allLines) : allLines[i].carId \in CarIds(cars) \cup kept

C12_DarknessFactor ==
    (calc # Null /\ calc.factor # Null) =>
        LET f == calc.factor[1]
            tl == calc.lifetimeMs
            fd == calc.fadeDurationMs
        IN  /\ f.den > 0
            /\ calc.isAlive => f.num = f.den
            /\ (~infiniteLifetime /\ ~calc.isAlive /\ calc.deathTime # Null) =>
                  LET t == now - calc.deathTime[1]
                  IN  /\ t <= tl => f.num = f.den
                      /\ (tl < t /\ t < tl + fd) => f.num * fd = (fd - (t - tl)) * f.den
                      /\ t >= tl + fd => f.num = 0

\* C12 witness: traceLifetime 2.0, fadeDuration 1.0, 2.5 s after death: the
\* factor computed is one half.
C12_Witness ==
    /\ calc # Null /\ calc.factor # Null
    /\ ~infiniteLifetime /\ ~calc.isAlive /\ calc.deathTime # Null
    /\ calc.lifetimeMs = 2000 /\ calc.fadeDurationMs = 1000
    /\ now - calc.deathTime[1] = 2500
    /\ 2 * calc.factor[1].num = calc.factor[1].den

\* A segment of the list before a step that is not in the list after it.
SegmentRemoved(i) == \A j \in 1..Len(allLines') : allLines'[j] # allLines[i]

\* C13: in infinite mode a frame removes a cell or a segment only by the
\* eviction that follows a failed spawn attempt, and then only cells and
\* segments of the evicted car; no frame removes anything because time passed.
C13_InfiniteKeepsTraces ==
    [][ (frame'.kind = "draw" /\ infiniteLifetime) =>
          /\ frame'.keysToRemove = {}
          /\ \A k \in DOMAIN occupiedCells :
                Deleted(k) =>
                    /\ frame'.oldestCarId # Null
                    /\ frame'.spawnSuccess[1] = FALSE
                    /\ cellOwners[k] = frame'.oldestCarId[1]
          /\ \A i \in 1..Len(allLines) :
                SegmentRemoved(i) =>
                    /\ frame'.oldestCarId # Null
                    /\ frame'.spawnSuccess[1] = FALSE
                    /\ allLines[i].carId = frame'.oldestCarId[1]
      ]_vars

\* C13 witness: in infinite mode, after the first cleanup frame, a car that
\* died longer ago than traceLifetime + fadeDuration still has its cells and
\* a segment.
C13_Witness ==
    /\ infiniteLifetime /\ frame.kind = "draw"
    /\ now >= FirstCleanupTime
    /\ \E id \in DOMAIN deadCarIds :
          /\ now - deadCarIds[id] > (traceLifetime + fadeDuration) * 1000
          /\ \E k \in DOMAIN cellOwners : cellOwners[k] = id
          /\ \E i \in 1..Len(allLines) : allLines[i].carId = id

\* C14: in infinite mode, when the spawn attempt of a step fails and a dead
\* car is recorded, the dead car of earliest death time is evicted: its
\* cells, segments and dead record are gone after the step, every cell and
\* segment of another car is kept, and spawnCar is called once more.
C14_EvictOldestAndRetry ==
    [][ (frame'.kind = "draw" /\ infiniteLifetime) =>
          LET dead == frame'.deadAfterPhase4
              failed == frame'.spawnSuccess # <<>> /\ frame'.spawnSuccess[1] = FALSE
          IN  /\ (failed /\ DOMAIN dead # {}) <=> frame'.oldestCarId # Null
              /\ frame'.oldestCarId # Null =>
                    LET oldest == frame'.oldestCarId[1]
                    IN  /\ oldest \in DOMAIN dead
                        /\ \A other \in DOMAIN dead : dead[oldest] <= dead[other]
                        /\ oldest \notin DOMAIN deadCarIds'
                        /\ DOMAIN deadCarIds' = DOMAIN dead \ {oldest}
                        /\ \A k \in DOMAIN cellOwners' : cellOwners'[k] # oldest
                        /\ \A i \in 1..Len(allLines') : allLines'[i].carId # oldest
                        /\ \A k \in DOMAIN cellOwners :
                              cellOwners[k] # oldest =>
                                  /\ k \in DOMAIN occupiedCells'
                                  /\ cellOwners'[k] = cellOwners[k]
                        /\ \A i \in 1..Len(frame'.linesAfterPhase4) :
                              frame'.linesAfterPhase4[i].carId # oldest =>
                                  \E j \in 1..Len(allLines') :
                                      allLines'[j] = frame'.linesAfterPhase4[i]
                        /\ Len(frame'.spawnSuccess) = 2
                        /\ nextCarId' = nextCarId + (IF frame'.spawnSuccess[2] THEN 1 ELSE 0)
      ]_vars

\* C14 witness: an eviction chose between two dead cars of different death
\* times, and the retried spawn succeeded.
C14_Witness ==
    /\ infiniteLifetime /\ frame.kind = "draw"
    /\ frame.oldestCarId # Null
    /\ \E a, c \in DOMAIN frame.deadAfterPhase4 :
          frame.deadAfterPhase4[a] < frame.deadAfterPhase4[c]
    /\ frame.spawnSuccess = <<FALSE, TRUE>>

\* The keys of the lattice cells inside the canvas.
GridKeys(cv) ==
    { KeyOf(ScanPoints(cv)[n]) :
        n \in { m \in DOMAIN ScanPoints(cv) : InBounds(cv, ScanPoints(cv)[m]) } }

\* C15: with maxCars = 1, a spawn attempt made when exactly one cell of the
\* grid is free succeeds and puts the new car on that cell, and a spawn
\* attempt made when no cell of the grid is free fails (so that after the
\* last cell is taken attempts fail until a prune or an eviction frees one).
C15_LastCellSpawn ==
    [][ (frame'.kind = "draw" /\ options.maxCars = 1 /\ frame'.spawnSuccess # <<>>) =>
          LET atSpawn == DOMAIN occupiedCells \ frame'.keysToRemove
              free == GridKeys(canvas) \ atSpawn
          IN  /\ Cardinality(free) = 1 =>
                    /\ frame'.spawnSuccess[1] = TRUE
                    /\ Len(cars') = 1
                    /\ KeyOf(cars'[1]) \in free
              /\ free = {} => frame'.spawnSuccess[1] = FALSE
      ]_vars

\* The cells of table occ that count as occupied.
OccupiedKeys(occ) == { k \in DOMAIN occ : IsOccupied(occ, k) }

\* The record of cell k in the three cell tables.
CellRecord(occ, stamps, owners, k) ==
    << IF k \in DOMAIN occ THEN <<occ[k]>> ELSE <<>>,
       IF k \in DOMAIN stamps THEN <<stamps[k]>> ELSE <<>>,
       IF k \in DOMAIN owners THEN <<owners[k]>> ELSE <<>> >>

\* C16: a call of spawnCar fails only when every in-bounds lattice cell is
\* occupied; a call that succeeds adds one car, on a cell that was not occupied,
\* makes that cell occupied and owned by the new car, and leaves the record of
\* every other cell as it was.
C16_SpawnCarContract ==
    [][ frame'.kind = "draw" =>
          \A n \in 1..Len(frame'.spawnCalls) :
             LET in == frame'.spawnCalls[n]
                 ok == frame'.spawnSuccess[n]
                 car == cars'[Len(cars')]
                 key == KeyOf(car)
                 keys == DOMAIN in.occupiedCells \cup DOMAIN in.cellTimestamps
                           \cup DOMAIN in.cellOwners \cup DOMAIN occupiedCells'
                           \cup DOMAIN cellTimestamps' \cup DOMAIN cellOwners'
             IN  /\ ~ok => GridKeys(canvas') \subseteq OccupiedKeys(in.occupiedCells)
                 /\ ok =>
                       /\ cars' = Append(in.cars, car)
                       /\ car.id = in.nextCarId
                       /\ key \notin OccupiedKeys(in.occupiedCells)
                       /\ key \in OccupiedKeys(occupiedCells')
                       /\ key \in DOMAIN cellOwners' /\ cellOwners'[key] = car.id
                       /\ \A k \in keys \ {key} :
                             CellRecord(occupiedCells', cellTimestamps', cellOwners', k)
                               = CellRecord(in.occupiedCells, in.cellTimestamps,
                                            in.cellOwners, k)
      ]_vars

\* A frame whose first spawnCar call failed on a full grid and whose second
\* call, after the eviction, placed a car while other cells stayed occupied.
C16_Witness ==
    /\ frame.kind = "draw"
    /\ frame.spawnSuccess = <<FALSE, TRUE>>
    /\ GridKeys(canvas) \subseteq OccupiedKeys(frame.spawnCalls[1].occupiedCells)
    /\ OccupiedKeys(frame.spawnCalls[2].occupiedCells) # {}
    /\ Cardinality(OccupiedKeys(occupiedCells))
         = Cardinality(OccupiedKeys(frame.spawnCalls[2].occupiedCells)) + 1

\* C17: at the end of construction and of every frame the number of live cars
\* is at most maxCars, in both lifecycle modes and in frames with an eviction
\* and a second spawn attempt.
C17_PopulationCeiling == Len(cars) <= options.maxCars

\* The ceiling is reached at the end of a frame that evicted a dead car and
\* spawned on the second attempt.
C17_Witness ==
    /\ frame.kind = "draw"
    /\ infiniteLifetime
    /\ frame.spawnSuccess = <<FALSE, TRUE>>
    /\ options.maxCars = maxCars
    /\ Len(cars) = options.maxCars

\* The times at which a frame is followed by another one within the bound.
FrameTimes == { StartTime + n * FrameMs : n \in 0..(MaxFrames - 2) }

\* The last frame met one of the conditions the simulation recovers from: a
\* car without a legal move, a spawn attempt that failed, or a commit that
\* found its destination occupied.
Troubled ==
    /\ frame.kind = "draw"
    /\ \/ \E i \in 1..Len(Entries) : Entries[i].legalDirs = {}
       \/ \E n \in 1..Len(frame.spawnSuccess) : ~frame.spawnSuccess[n]
       \/ Losers # {}

\* C18: no state stops the simulation: after a frame with a car without a
\* legal move, a failed spawn or a commit-time collision, the frame of the
\* next clock tick is processed.
C18_TicksKeepComing ==
    \A t \in FrameTimes :
        (Troubled /\ now = t) ~> (frame.kind = "draw" /\ now = t + FrameMs)

\* A frame has been processed after an earlier one left a dead car, and has
\* itself met all three conditions or a full grid.
C18_Witness ==
    /\ Troubled
    /\ now > StartTime
    /\ \E id \in DOMAIN deadCarIds : deadCarIds[id] < now
    /\ \E n \in 1..Len(frame.spawnSuccess) : ~frame.spawnSuccess[n]

\* C19: a commit that finds its destination already occupied leaves the
\* occupancy, timestamp and owner tables and the trace list as they were, and
\* of the car it changes the stuck flag only, which it sets: position,
\* heading, turn preference, distanceTraveled and cellsVisited stay.
C19_BlockedCommitChangesNothing ==
    \A n \in 1..Len(frame.blockedCommits) :
        LET before == frame.blockedCommits[n].before
            after == frame.blockedCommits[n].after
        IN  /\ after.occupiedCells = before.occupiedCells
            /\ after.cellTimestamps = before.cellTimestamps
            /\ after.cellOwners = before.cellOwners
            /\ after.allLines = before.allLines
            /\ after.car.x = before.car.x /\ after.car.y = before.car.y
            /\ after.car.currentDirection = before.car.currentDirection
            /\ after.car.preferredTurnDirection = before.car.preferredTurnDirection
            /\ after.car.distanceTraveled = before.car.distanceTraveled
            /\ after.car.cellsVisited = before.car.cellsVisited
            /\ after.car.stuck
            /\ after.car = [before.car EXCEPT !.stuck = TRUE]

\* A commit was stopped on a cell that another car had taken in the same
\* step, for a car that had drawn segments before.
C19_Witness ==
    /\ frame.kind = "draw"
    /\ \E n \in 1..Len(frame.blockedCommits) :
          LET c == frame.blockedCommits[n]
          IN  /\ ~c.before.car.stuck
              /\ c.before.car.cellsVisited > 0
              /\ c.key \in DOMAIN c.before.cellOwners
              /\ c.before.cellOwners[c.key] # c.before.car.id
              /\ c.before.cellTimestamps[c.key] = now

\* C20: a car whose commit is stopped by the occupied-destination check is
\* treated like a car without a legal move: in that step it is removed from
\* the active cars at its unchanged position, recorded dead at the step's
\* time, counted in its strategy's fitness, and given a zero-length segment
\* of its own at its position.
C20_BlockedCarRetiredWithDot ==
    [][ frame'.kind = "draw" =>
          \A n \in 1..Len(frame'.blockedCommits) :
              LET c == frame'.blockedCommits[n].before.car
                  fit == strategyFitness[c.strategy]
                  fit2 == strategyFitness'[c.strategy]
                  same == Retired(c.strategy)
              IN  /\ c.id \in CarIds(cars) /\ c.id \notin CarIds(cars')
                  /\ \E k \in 1..Len(frame'.stuckCars) :
                        /\ frame'.stuckCars[k].id = c.id
                        /\ frame'.stuckCars[k].x = c.x
                        /\ frame'.stuckCars[k].y = c.y
                  /\ c.id \in DOMAIN frame'.deadAfterPhase4
                  /\ frame'.deadAfterPhase4[c.id] = now'
                  /\ \E s \in same : cars[s].id = c.id
                  /\ fit2.count = fit.count + Cardinality(same)
                  /\ \E l \in 1..Len(frame'.linesAfterPhase4) :
                        LET line == frame'.linesAfterPhase4[l]
                        IN  /\ line.carId = c.id
                            /\ line.x1 = c.x /\ line.y1 = c.y
                            /\ line.x2 = c.x /\ line.y2 = c.y
      ]_vars

\* C21: the commit-time check never fires: in every step, each move that
\* PHASE 3 passes to executeMove has a destination that is unoccupied at the
\* moment of the call.
C21_CommitCheckUnreachable ==
    frame.kind = "draw" => frame.blockedCommits = <<>>

\* The entries whose move a step commits, by the list alone: those with a
\* move that no earlier entry of the list claims too.
Committing == { i \in 1..Len(Entries) : Entries[i].move # Null /\ FirstClaimant(i) = i }

\* C22: what conflict detection and commit do is a function of the ordered
\* list of intended moves, with no random choice: the moves committed are
\* those of the first claimant of each destination, each contested cell goes
\* to its first claimant, and the cars marked stuck are the cars of all
\* other entries.
C22_ConflictResolutionDeterministic ==
    frame.kind = "draw" =>
        /\ \A i \in 1..Len(Entries) :
              LET e == Entries[i]
                  final == FinalCar(e.car.id)
              IN  IF i \in Committing
                  THEN /\ e.car.id \in CarIds(cars)
                       /\ <<KeyOf(final)>> = e.snappedDestKey
                       /\ final.currentDirection = e.move[1].direction
                       /\ cellOwners[e.snappedDestKey[1]] = e.car.id
                  ELSE /\ e.car.id \in CarIds(frame.stuckCars)
                       /\ final.x = e.car.x /\ final.y = e.car.y
                       /\ final.currentDirection = e.car.currentDirection
        /\ CarIds(frame.stuckCars)
              = { Entries[i].car.id : i \in (1..Len(Entries)) \ Committing }

\* A step with a contested destination: the first claimant commits and the
\* other one is marked stuck.
C22_Witness ==
    /\ frame.kind = "draw"
    /\ Losers # {}
    /\ Committing # {}
    /\ Len(Entries) >= 2

\* C23: in a step every car that is not stuck gets one intended move, and
\* each of them is calculated for the car as the step found it, against the
\* occupancy table and the trace list as they were when the step began (after
\* the frame's pruning): no intended move depends on a move of the same step.
C23_IntentsFromStartOfStep ==
    [][ (frame'.kind = "draw" /\ frame'.stepped) =>
          LET start == clearFadedCells(Board, now', CarIds(cars))
              moving == { c \in 1..Len(cars) : ~cars[c].stuck }
              entries == frame'.intendedMoves
          IN  /\ { entries[i].carIndex : i \in 1..Len(entries) } = moving
              /\ Len(entries) = Cardinality(moving)
              /\ \A i \in 1..Len(entries) :
                    LET e == entries[i]
                    IN  /\ e.car = cars[e.carIndex]
                        /\ \E m \in MoveSet(e.car, start.occupiedCells, canvas.width,
                                             canvas.height, start.allLines, rng.shuffles) :
                              /\ m.move = e.move
                              /\ m.priorities = e.priorities
                              /\ m.legalDirs = e.legalDirs
      ]_vars

\* A step of two cars that both had a move, to the same cell: the second
\* intent did not take the first into account.
C23_Witness ==
    /\ frame.kind = "draw" /\ frame.stepped
    /\ Len(Entries) >= 2
    /\ \A i \in 1..Len(Entries) : Entries[i].move # Null
    /\ \E i \in 1..Len(Entries) : Contested(i)

\* Options that are out of range: a negative delay, or a mutation rate
\* outside [0, 1].
Malformed(o) ==
    \/ o.stepDelay # <<>> /\ o.stepDelay[1] < 0
    \/ o.spawnDelay # <<>> /\ o.spawnDelay[1] < 0
    \/ o.mutationRate # <<>> /\ (o.mutationRate[1] < 0 \/ o.mutationRate[1] > 100)

\* C24: constructing the board with a negative stepDelay or spawnDelay, or a
\* mutationRate outside [0, 1], ends in a validation failure, and no
\* simulation is started.
C24_MalformedConfigRejected ==
    (calc # Null /\ calc.board # Null /\ Malformed(calc.options)) =>
        /\ calc.board[1].thrown
        /\ ~calc.board[1].initCalled

\* The cells that the owner table gives to car id.
OwnedCells(id) == { k \in DOMAIN cellOwners : cellOwners[k] = id }

\* C25: every active car owns cellsVisited + 1 cells of the owner table, its
\* spawn cell and one new cell for each committed move, the cell it stands
\* on among them; so it has entered no cell twice.
C25_CellsVisitedCountsOwnedCells ==
    \A c \in 1..Len(cars) :
        /\ Cardinality(OwnedCells(cars[c].id)) = cars[c].cellsVisited + 1
        /\ KeyOf(cars[c]) \in OwnedCells(cars[c].id)

\* An active car has committed three moves while another car's cells were
\* in the table too.
C25_Witness ==
    \E c \in 1..Len(cars) :
        /\ cars[c].cellsVisited >= 3
        /\ \E k \in DOMAIN cellOwners : cellOwners[k] # cars[c].id

\* C26: with mutationRate 0 and one strategy seeded with a high fitness, the
\* share of the draws that return a strategy differs from its normalized
\* weight (its weight over the sum of the four weights) by at most one draw
\* per value of the mutation test, so it converges to the normalized weight
\* as the draws get finer; the seeded strategy is drawn most often.
C26_DrawFrequencyIsNormalizedWeight ==
    (calc # Null /\ calc.counts # Null) =>
        LET counts == calc.counts[1]
            weight(s) == IF s = calc.seeded
                         THEN (2 * calc.fitness[s].totalCells
                                 + calc.fitness[s].totalLifetime \div 1000)
                              * (2 * calc.fitness[s].totalCells
                                 + calc.fitness[s].totalLifetime \div 1000)
                         ELSE 1
            total == weight(calc.seeded) + 3
            draws == 4 * total * calc.resolution
        IN  \A s \in StrategySet :
              /\ Abs(counts[s] * total - weight(s) * draws) <= 4 * total
              /\ counts[calc.seeded] >= counts[s]

\* Wall-follower seeded with combinedFitness 10 (weight 100 of 103), four
\* random values per unit of weight: drawn 1604 times out of 1648.
C26_Witness ==
    /\ calc # Null /\ calc.counts # Null
    /\ calc.seeded = "wall-follower"
    /\ calc.fitness["wall-follower"].totalCells = 4
    /\ calc.fitness["wall-follower"].totalLifetime = 2000
    /\ calc.resolution = 4
    /\ calc.counts[1]["wall-follower"] = 1604

\* The directions of the six first steps of a wall-follower that starts
\* heading East with right preference on the centre of the empty 5x5 grid.
SpiralDirections == << 1, 2, 3, 4, 5, 5 >>

\* The first entry of a candidate list that is among the legal directions.
FirstLegal(priorities, legal) ==
    priorities[CHOOSE i \in 1..Len(priorities) :
                  /\ priorities[i] \in legal
                  /\ \A j \in 1..(i - 1) : priorities[j] \notin legal]

\* C27: a single wall-follower with right preference, spawned on the centre
\* of the empty 5x5 grid heading East, takes in its steps 1 to 6 the
\* directions 1, 2, 3, 4, 5, 5; each is the first legal entry of the order
\* h+1, h, h+2, h+3, h+4, h+5 for its heading h, each step commits the move,
\* and the cell entered was not occupied.
C27_WallFollowerSpiral ==
    [][ (/\ calc # Null /\ DOMAIN calc = {"heading", "turn"}
         /\ calc.heading = 0 /\ calc.turn = "right"
         /\ frame'.kind = "draw" /\ frame'.stepped
         /\ (now' - StartTime + FrameMs) \div stepDelay <= 6) =>
          LET n == (now' - StartTime + FrameMs) \div stepDelay
              car == cars[1]
              h == car.currentDirection
              e == frame'.intendedMoves[1]
              order == << (h + 1) % 6, h, (h + 2) % 6, (h + 3) % 6, (h + 4) % 6, (h + 5) % 6 >>
          IN  /\ Len(cars) = 1 /\ car.id = 0 /\ car.cellsVisited = n - 1
              /\ Len(frame'.intendedMoves) = 1
              /\ e.move # Null
              /\ e.move[1].direction = SpiralDirections[n]
              /\ e.legalDirs # {}
              /\ e.move[1].direction = FirstLegal(order, e.legalDirs)
              /\ e.snappedDestKey[1] \notin OccupiedKeys(occupiedCells)
              /\ Len(cars') = 1 /\ cars'[1].id = 0
              /\ <<KeyOf(cars'[1])>> = e.snappedDestKey
              /\ cars'[1].cellsVisited = n
              /\ frame'.blockedCommits = <<>>
      ]_vars

\* The car has made its sixth step: it went round the cell west of the
\* centre, found its spawn cell occupied and went straight on.
C27_Witness ==
    /\ calc # Null /\ DOMAIN calc = {"heading", "turn"}
    /\ calc.heading = 0 /\ calc.turn = "right"
    /\ frame.kind = "draw" /\ frame.stepped
    /\ Len(cars) = 1 /\ cars[1].cellsVisited = 6
    /\ cars[1].currentDirection = 5
    /\ canvas = Grid5

\* The car with this id as the frame being taken leaves it, <<>> when the
\* frame drops it without retiring it (a resize).
CarAfter(id) ==
    IF \E j \in 1..Len(cars') : cars'[j].id = id
    THEN << cars'[CHOOSE j \in 1..Len(cars') : cars'[j].id = id] >>
    ELSE IF \E j \in 1..Len(frame'.stuckCars) : frame'.stuckCars[j].id = id
    THEN << frame'.stuckCars[CHOOSE j \in 1..Len(frame'.stuckCars) :
                                frame'.stuckCars[j].id = id] >>
    ELSE <<>>

Turned(h, offsets) == [ i \in 1..Len(offsets) |-> (h + offsets[i]) % 6 ]

\* C29: for a wall-follower with heading h the candidate order is h+1, h,
\* h+2, h+3, h+4, h+5 (mod 6) with right preference and h+5, h, h+4, h+3,
\* h+2, h+1 (mod 6) with left preference.
C29_WallFollowerOrder ==
    (calc # Null /\ "priorities" \in DOMAIN calc /\ calc.priorities # Null
       /\ calc.strategy = "wall-follower") =>
        calc.priorities =
            IF calc.preferredTurnDirection = "right"
            THEN Turned(calc.straightAhead, << 1, 0, 2, 3, 4, 5 >>)
            ELSE Turned(calc.straightAhead, << 5, 0, 4, 3, 2, 1 >>)

\* The list of a wall-follower heading 4 with left preference: 3, 4, 2, 1, 0, 5.
C29_Witness ==
    /\ calc # Null /\ "priorities" \in DOMAIN calc
    /\ calc.strategy = "wall-follower"
    /\ calc.straightAhead = 4 /\ calc.preferredTurnDirection = "left"
    /\ calc.priorities = << 3, 4, 2, 1, 0, 5 >>

\* C30: for a spiral car with heading h the candidate order is h+1, h+2, h,
\* h+3, h+5, h+4 (mod 6) with right preference and h+5, h+4, h, h+3, h+1, h+2
\* (mod 6) with left preference.
C30_SpiralOrder ==
    (calc # Null /\ "priorities" \in DOMAIN calc /\ calc.priorities # Null
       /\ calc.strategy = "spiral") =>
        calc.priorities =
            IF calc.preferredTurnDirection = "right"
            THEN Turned(calc.straightAhead, << 1, 2, 0, 3, 5, 4 >>)
            ELSE Turned(calc.straightAhead, << 5, 4, 0, 3, 1, 2 >>)

\* The list of a spiral car heading 2 with left preference: 1, 0, 2, 5, 3, 4.
C30_Witness ==
    /\ calc # Null /\ "priorities" \in DOMAIN calc
    /\ calc.strategy = "spiral"
    /\ calc.straightAhead = 2 /\ calc.preferredTurnDirection = "left"
    /\ calc.priorities = << 1, 0, 2, 5, 3, 4 >>

\* The conflicts of the step between exactly two entries, as pairs
\* << first, second >> in list order.
TwoClaimantConflicts ==
    { pair \in (1..Len(Entries)) \X (1..Len(Entries)) :
        /\ pair[1] < pair[2]
        /\ Entries[pair[1]].move # Null
        /\ Claimants(pair[1]) = {pair[1], pair[2]} }

\* Both entries of the pair go straight, on headings three sixths apart.
HeadOn(pair) ==
    LET e1 == Entries[pair[1]]
        e2 == Entries[pair[2]]
    IN  /\ e1.move[1].direction = e1.car.currentDirection
        /\ e2.move[1].direction = e2.car.currentDirection
        /\ Abs(e1.car.currentDirection - e2.car.currentDirection) = 3

\* C31: a conflict between two cars ends the same way whether or not it is
\* head-on: the first claimant in list order commits its move and owns the
\* cell, and the second one has not moved and is no longer active.
C31_HeadOnResolvedFirstWins ==
    frame.kind = "draw" =>
        \A pair \in TwoClaimantConflicts :
            LET e1 == Entries[pair[1]]
                e2 == Entries[pair[2]]
                final1 == FinalCar(e1.car.id)
                final2 == FinalCar(e2.car.id)
            IN  /\ e1.car.id \in CarIds(cars)
                /\ <<KeyOf(final1)>> = e1.snappedDestKey
                /\ final1.currentDirection = e1.move[1].direction
                /\ cellOwners[e1.snappedDestKey[1]] = e1.car.id
                /\ e2.car.id \in CarIds(frame.stuckCars)
                /\ final2.x = e2.car.x /\ final2.y = e2.car.y
                /\ final2.currentDirection = e2.car.currentDirection

\* A step with a head-on conflict: two cars facing each other across one free
\* cell, both going straight into it.
C31_Witness ==
    /\ frame.kind = "draw"
    /\ \E pair \in TwoClaimantConflicts : HeadOn(pair)

\* The segments of this car among the first n of a list.
OwnSegmentsBefore(lines, n, id) ==
    Cardinality({ m \in 1..(n - 1) : lines[m].carId = id })

\* C32: every committed move appends exactly one segment to the trace list:
\* it runs from the cell the car stood on to its new cell, carries the car's
\* id and, as segmentIndex, the number of that car's segments before it in
\* the list; the car then stands on the destination and heads in the move's
\* direction.  The step appends nothing else but the death dots of the cars
\* without a move.
C32_CommittedMoveAppendsOneSegment ==
    [][ (frame'.kind = "draw" /\ frame'.stepped) =>
          LET start == clearFadedCells(Board, now', CarIds(cars))
              entries == frame'.intendedMoves
              lines == frame'.linesAfterPhase4
              committing == { i \in 1..Len(entries) :
                                /\ entries[i].move # Null
                                /\ \A j \in 1..(i - 1) :
                                      \/ entries[j].move = Null
                                      \/ entries[j].snappedDestKey # entries[i].snappedDestKey }
              dots == { i \in 1..Len(entries) : entries[i].move = Null }
              added == (Len(start.allLines) + 1)..Len(lines)
          IN  /\ SubSeq(lines, 1, Len(start.allLines)) = start.allLines
              /\ Cardinality(added) = Cardinality(committing) + Cardinality(dots)
              /\ \A i \in committing :
                    LET e == entries[i]
                        own == { n \in added : lines[n].carId = e.car.id }
                        after == CarAfter(e.car.id)
                    IN  /\ Cardinality(own) = 1
                        /\ \A n \in own :
                              /\ lines[n].x1 = e.car.x /\ lines[n].y1 = e.car.y
                              /\ <<getHexKey(lines[n].x2, lines[n].y2)>> = e.snappedDestKey
                              /\ lines[n].segmentIndex = OwnSegmentsBefore(lines, n, e.car.id)
                              /\ after # <<>>
                              /\ after[1].x = lines[n].x2 /\ after[1].y = lines[n].y2
                              /\ after[1].x = e.move[1].x /\ after[1].y = e.move[1].y
                              /\ after[1].currentDirection = e.move[1].direction
      ]_vars

\* A step in which a car with segments of its own, behind segments of
\* another car, has committed one more move.
C32_Witness ==
    /\ frame.kind = "draw" /\ frame.stepped
    /\ \E i \in Committing :
          /\ Entries[i].car.id \in CarIds(cars)
          /\ \E n \in 1..Len(frame.linesAfterPhase4) :
                LET seg == frame.linesAfterPhase4[n]
                IN  /\ seg.carId = Entries[i].car.id
                    /\ seg.timestamp = now
                    /\ seg.segmentIndex >= 1
                    /\ seg.segmentIndex < n - 1

\* The fixed order of the strategies in a draw.
DrawOrder == << "wall-follower", "wanderer", "explorer", "spiral" >>

\* C33: in a draw that is not a mutation draw, a strategy without a retired
\* car weighs 1 and any other one the square of 2 * avgCells + avgLifetime +
\* avgDistance / 100, and the strategy returned is the first one, in the
\* order wall-follower, wanderer, explorer, spiral, whose cumulative weight
\* reaches the roulette value.
C33_SquaredWeightsRoulette ==
    (calc # Null /\ calc.drawn # Null) =>
        LET combined(fit) == (2 * fit.totalCells) \div fit.count
                                + (fit.totalLifetime \div 1000) \div fit.count
                                + ((fit.totalDistance \div 10) \div fit.count) \div 100
            weight(i) == LET fit == calc.fitness[DrawOrder[i]]
                         IN  IF fit.count = 0 THEN 1 ELSE combined(fit) * combined(fit)
            cumulative(i) == SumOver([ j \in 1..4 |-> weight(j) ], 1..i)
        IN  \E i \in 1..4 :
              /\ calc.drawn[1] = { DrawOrder[i] }
              /\ calc.k <= cumulative(i)
              /\ \A j \in 1..(i - 1) : calc.k > cumulative(j)

\* A draw with explorer seeded at combined fitness 5 (weights 1, 1, 25, 1)
\* and roulette value 27: the first three cumulative weights 1, 2, 27 make it
\* the explorer.
C33_Witness ==
    /\ calc # Null /\ calc.drawn # Null
    /\ calc.seeded = "explorer"
    /\ calc.fitness["explorer"] = [ totalLifetime |-> 4000, count |-> 2,
                                    totalDistance |-> 2000, totalCells |-> 2 ]
    /\ calc.k = 27
    /\ calc.drawn[1] = { "explorer" }

\* The frame just processed made a spawn attempt.
SpawnAttempted == frame.kind = "draw" /\ frame.spawnSuccess # <<>>

\* C34 as stated: any two frames that attempt a spawn are at least
\* spawnDelay apart.
C34_SpawnAttemptsSpaced ==
    \A t \in FrameTimes :
        []( (SpawnAttempted /\ now = t)
              => [](SpawnAttempted => (now = t \/ now - t >= options.spawnDelay)) )

\* C34: lastSpawnTime is the time of the latest frame that attempted a spawn
\* since the board was last reset (0 if there is none), whether or not the
\* attempt succeeded, and a frame attempts a spawn only when it is at least
\* spawnDelay later and fewer than maxCars cars are active; so two frames
\* that attempt a spawn with no reset between them are at least spawnDelay
\* apart.  A frame makes a second attempt only as the retry after an
\* eviction, and never a third.
C34_SpawnAttemptsSpacedBetweenResets ==
    [][ /\ (frame'.kind = "draw" /\ frame'.spawnSuccess # <<>>) =>
              /\ now' - lastSpawnTime >= options.spawnDelay
              /\ Len(frame'.spawnCalls[1].cars) < options.maxCars
              /\ lastSpawnTime' = now'
              /\ Len(frame'.spawnSuccess) <= 2
              /\ Len(frame'.spawnSuccess) = 2 =>
                    /\ infiniteLifetime
                    /\ ~frame'.spawnSuccess[1]
                    /\ frame'.oldestCarId # Null
        /\ (frame'.kind = "draw" /\ frame'.spawnSuccess = <<>>) =>
              lastSpawnTime' = lastSpawnTime
        /\ frame'.kind = "resize" => lastSpawnTime' = 0
      ]_vars

\* A frame that attempts a spawn later than the first one, on a board with a
\* spawn delay, with an attempt that failed.
C34_Witness ==
    /\ SpawnAttempted
    /\ options.spawnDelay > 0
    /\ now >= StartTime + options.spawnDelay
    /\ lastSpawnTime = now
    /\ ~frame.spawnSuccess[1]

\* C35: every active car stands inside the canvas (0 <= x < width and
\* 0 <= y < height), and every key of the occupancy table is the key of a
\* lattice point inside the canvas.
C35_EverythingInBounds ==
    /\ \A c \in 1..Len(cars) : InBounds(canvas, [x |-> cars[c].x, y |-> cars[c].y])
    /\ DOMAIN occupiedCells \subseteq GridKeys(canvas)

\* C36: in infinite mode, a spawn attempt that failed and was followed by the
\* eviction of a dead car is followed in the same frame by a retry that
\* succeeds.
C36_RetryAfterEvictionSucceeds ==
    (frame.kind = "draw" /\ Len(frame.spawnSuccess) = 2) => frame.spawnSuccess[2]

\* A car has just been created: by a spawn attempt of the frame, or by the
\* spawn loop of a reset.
Spawned ==
    \/ frame.kind = "draw" /\ \E n \in 1..Len(frame.spawnSuccess) : frame.spawnSuccess[n]
    \/ frame.kind = "resize" /\ Len(cars) > 0

\* The time between two steps: the first multiple of the frame interval that
\* reaches stepDelay.
StepGap == CeilDiv(stepDelay, FrameMs) * FrameMs

\* The last time from which the frames up to the first cleanup frame cover
\* what a full grid needs to recover in fading mode: the step with the failed
\* attempt, the step that retires the cars still active, and their fade
\* interval.
SpawnDeadline == FirstCleanupTime - 2 * StepGap - (traceLifetime + fadeDuration) * 1000

\* C37: in both modes, while frames keep running, a population below maxCars
\* is followed by the creation of a car, also when the frame found no free
\* cell.  The frames are those up to SpawnDeadline: from a later one the
\* recovery of a full grid in fading mode needs the second cleanup frame,
\* CleanupPeriod frames after the first.
C37_SpawnEventually ==
    (Len(cars) < options.maxCars /\ ~Spawned /\ now <= SpawnDeadline) ~> Spawned

\* A frame of fading mode, no later than SpawnDeadline, whose only spawn
\* attempt failed on a full grid, with the population below maxCars.
C37_Witness ==
    /\ frame.kind = "draw"
    /\ ~infiniteLifetime
    /\ now <= SpawnDeadline
    /\ Len(cars) < options.maxCars
    /\ frame.spawnSuccess = <<FALSE>>
    /\ GridKeys(canvas) \subseteq DOMAIN occupiedCells

\* C38: after every frame, the owner of every cell of the owner table and of
\* every segment of the trace list is an active car or a car of the dead
\* record, and every car of the dead record owns at least one cell.
C38_NoOrphansNoLeaks ==
    LET known == CarIds(cars) \cup DOMAIN deadCarIds
    IN  /\ \A k \in DOMAIN cellOwners : cellOwners[k] \in known
        /\ \A i \in 1..Len(allLines) : allLines[i].carId \in known
        /\ \A id \in DOMAIN deadCarIds : OwnedCells(id) # {}

\* A frame that evicted a dead car while another car is active, another one
\* is recorded dead and segments remain: nothing is left of the evicted car.
C38_Witness ==
    /\ frame.kind = "draw"
    /\ frame.oldestCarId # Null
    /\ frame.oldestCarId[1] \notin CarIds(cars) \cup DOMAIN deadCarIds
    /\ DOMAIN deadCarIds # {}
    /\ Len(allLines) > 0
    /\ Len(cars) > 0

\* C39: after every frame, the cell each active car stands on is in the
\* occupancy table with a positive count and its owner is that car; no prune
\* and no eviction has freed it.
C39_LiveCarOwnsItsCell ==
    \A c \in 1..Len(cars) :
        /\ IsOccupied(occupiedCells, KeyOf(cars[c]))
        /\ KeyOf(cars[c]) \in DOMAIN cellOwners
        /\ cellOwners[KeyOf(cars[c])] = cars[c].id

\* A frame that evicted a dead car younger than a car that was active and
\* has moved, and is still active on a cell of its own.
C39_Witness ==
    /\ frame.kind = "draw"
    /\ frame.oldestCarId # Null
    /\ \E c \in 1..Len(cars) :
          /\ cars[c].id < frame.oldestCarId[1]
          /\ cars[c].cellsVisited > 0
          /\ cellOwners[KeyOf(cars[c])] = cars[c].id

\* The ids found anywhere on the board: active cars, dead record, cell
\* owners and segments.
IdsInUse(cs, dead, owners, lines) ==
    CarIds(cs) \cup DOMAIN dead \cup { owners[k] : k \in DOMAIN owners }
        \cup { lines[i].carId : i \in 1..Len(lines) }

\* C40: car ids are unique over the whole run: nextCarId never decreases,
\* not in a reset either, and lies above every id on the board; the cars
\* that a frame or a reset adds to the active list take the ids from the old
\* nextCarId up to the new one, one each, so each is greater than every id
\* issued before; no two active cars share an id.  Hence no id is reused
\* and no retired car becomes active again.
C40_IdsFreshAndIncreasing ==
    [][ /\ nextCarId' >= nextCarId
        /\ \A id \in IdsInUse(cars, deadCarIds, cellOwners, allLines) : id < nextCarId
        /\ \A id \in IdsInUse(cars', deadCarIds', cellOwners', allLines') : id < nextCarId'
        /\ CarIds(cars') \ CarIds(cars) = nextCarId..(nextCarId' - 1)
        /\ Cardinality(CarIds(cars')) = Len(cars')
      ]_vars

\* A reset that filled the board again: the new cars did not take the ids
\* issued before it.
C40_Witness ==
    /\ frame.kind = "resize"
    /\ Len(cars) > 0
    /\ \A c \in 1..Len(cars) : cars[c].id >= 2
    /\ nextCarId >= 4

====
